---- MODULE Spec2Model ----
(***************************************************************************)
(* A model of one BotInstance of src/python/bot_engine.py: the bot tick,   *)
(* the strategy evaluators' entry/exit gating, open_position,              *)
(* check_positions and close_position, against the row store               *)
(* (bot_positions, bot_trades).                                            *)
(*                                                                         *)
(* Prices are integers in ticks of 1e-4 USD; every modelled price is a     *)
(* multiple of 100 ticks so that whole-percent stops are exact.  A size is *)
(* the exact rational n / d, in USD per tick (notional = size * price).    *)
(* Time is in whole seconds.                                               *)
(***************************************************************************)
EXTENDS Integers, Sequences, FiniteSets, TLC

(* ------------------------------ bounds --------------------------------- *)
MaxIds == 2          \* position rows ever inserted in one behaviour
MaxTicks == 2        \* bot ticks in one behaviour
MaxFaults == 1       \* failing provider / store calls in one behaviour
MaxBots == 2         \* bot_instances rows the supervisor's query can return
Epoch == 1000        \* clock value at construction (timers start at 0, long before)
MaxShort == 2        \* length of the freely chosen candle sequences
MaxCandles == 22     \* length of the longest candle sequence
MaxSweeps == 3       \* position sweeps of one position

(* ------------------------- program constants --------------------------- *)
position_cooldown == 60
market_data_cache_ttl == 2
liquidity_grab_timeout == 600
liquidity_grab_check_interval == 5
DefaultMinHoldTime == 30
DefaultCooldownPeriod == 60
DefaultImbalanceThresholdPct == 70
BreakEvenEps == 1            \* abs(new_sl - stop_loss) > 0.0001, in ticks
SupervisorPause == 1         \* asyncio.sleep(1) after a supervisor tick
SupervisorErrorPause == 5    \* asyncio.sleep(5) after a supervisor tick that raised
ScannerPause == 30           \* asyncio.sleep(30) after a scanner update
ScannerErrorPause == 10      \* asyncio.sleep(10) after a scanner update that raised
ZoneThresholdPerMille == 5   \* ZONE_THRESHOLD = 0.005
RecentCandles == 20          \* candles[-max(20, len(candles)):]

(* --------------------------- input domains ----------------------------- *)
Symbols == {"BTC", "ETH"}
Pairs == <<"BTC", "ETH">>
NoPrice == -1
PriceSet == {9900, 10000, 10100}     \* mid prices the provider returns
BookPriceSet == {0, 10000}           \* best bid / best ask of an L2 book
DtSet == {10, 60}                    \* seconds from one tick to the next
StrategyTypes == {"orderbook_imbalance", "orderbook_imbalance_v2",
                  "momentum_breakout", "multi_timeframe_breakout",
                  "liquidity_grab", "support_liquidity", "other"}
InsertOutcomes == {"ok", "exception", "error", "empty"}
NoTime == -1

VARIABLES
    strategy,                    \* self.strategy (config snapshot)
    now,                         \* datetime.now().timestamp()
    ticks,                       \* history: bot ticks started so far
    faults,                      \* history: provider / store calls that have failed so far
    pc,                          \* position of the tick: idle / strategy / refresh / sweep / sleep
    pair_idx,                    \* index of the pair the strategy loop is at
    sweep,                       \* the list object check_positions iterates
    sweep_idx,                   \* index in that list
    bot_positions,               \* store table bot_positions (row id = index)
    bot_trades,                  \* store table bot_trades (append-only)
    positions,                   \* self.positions
    position_metadata,           \* self.position_metadata
    last_prices,                 \* self.last_prices
    cached_market_data,          \* self.cached_market_data
    last_market_data_fetch,      \* self.last_market_data_fetch
    last_position_close_time,    \* self.last_position_close_time
    max_positions_reached,       \* local of run_multi_timeframe_breakout_strategy
    orderbook_v2_last_trade_time,      \* self.orderbook_v2_last_trade_time
    orderbook_v2_position_open_time,   \* self.orderbook_v2_position_open_time
    liquidity_grab_events,       \* self.liquidity_grab_events
    last_liquidity_grab_check,   \* self.last_liquidity_grab_check
    last_support_liquidity_check,\* self.last_support_liquidity_check
    break_even_moved,            \* history: ids whose stop the break-even write moved
    call,                        \* what the last step called: open/close and its outcome
    running_bots,                \* BotEngine.running_bots (its keys)
    sup_pc,                      \* position of BotEngine.start / BotEngine.tick
    sup_sleep,                   \* seconds BotEngine.start sleeps, 0 when not sleeping
    bots,                        \* local of BotEngine.tick: the rows the query returned
    sup_idx,                     \* index of the row the loop of BotEngine.tick is at
    queried,                     \* history: outcome of the last bot query
    ticked,                      \* history: bots whose tick ran in this supervisor tick
    stamped,                     \* history: bots whose last_tick_at was written in it
    ended_early,                 \* history: bots whose tick returned for want of prices
    error_logged,                \* history: bots that got an error log in this supervisor tick
    failed_bots,                 \* history: bots whose processing raised in this supervisor tick
    scan_pc,                     \* position of main of scanner_worker.py
    scan_sleep,                  \* seconds the scanner sleeps, 0 when not sleeping
    tokens,                      \* local of update_scanner_levels: the retained tokens
    scan_idx,                    \* index of the token the loop of update_scanner_levels is at
    upserted,                    \* history: symbols whose upsert was attempted in this cycle
    scan_failed,                 \* history: symbols whose processing failed in this cycle
    lv_candles,                  \* calculate_levels: the candles argument
    lv_price,                    \* calculate_levels: the current_price argument
    lv_zones,                    \* the zones list the last call of calculate_levels left
    lv_result,                   \* what the last call of calculate_levels returned
    lv_first,                    \* history: what its first call returned
    lv_between,                  \* history: calls on other candles made since the first call
    lv_idx,                      \* the candle its loop is at, 0: no call in progress
    lv_work,                     \* the zones list of the call in progress
    lv_runs,                     \* history: calls of calculate_levels on these arguments
    peer,                        \* another BotInstance: its rows in the tables, its lists
    candle_cache,                \* self.candle_cache: cache key -> candles
    last_candle_fetch,           \* self.last_candle_fetch: cache key -> fetch time
    candle_calls,                \* history: calls of get_candles_cached made
    closest_input,               \* find_closest_level: the all_levels_by_timeframe argument
    closest_level,               \* what find_closest_level returned
    market,                      \* what info.meta_and_asset_ctxs() gives in this cycle
    tile_rows,                   \* bot_logs: ids of the rows log_update wrote for one
                                 \* pair and one update_type that are still there
    tile_log_id,                 \* log_id_dict[pair] of that update_type, NoTile: absent
    tile_issued,                 \* bot_logs: the last id the store gave to such a row
    tile_calls,                  \* history: calls of log_update made for the pair
    tile_last,                   \* history: what the last of these calls did
    tile_purged                  \* history: someone else deleted such a row

vars == <<strategy, now, ticks, faults, pc, pair_idx, sweep, sweep_idx, bot_positions, bot_trades,
          positions, position_metadata, last_prices, cached_market_data,
          last_market_data_fetch, last_position_close_time, max_positions_reached,
          orderbook_v2_last_trade_time, orderbook_v2_position_open_time,
          liquidity_grab_events, last_liquidity_grab_check,
          last_support_liquidity_check, break_even_moved, call,
          running_bots, sup_pc, sup_sleep, bots, sup_idx, queried, ticked, stamped,
                   ended_early,
          error_logged, failed_bots, scan_pc, scan_sleep,
          tokens, scan_idx, upserted, scan_failed,
          lv_candles, lv_price, lv_zones, lv_result, lv_first, lv_between, lv_idx,
          lv_work, lv_runs, peer, candle_cache, last_candle_fetch, candle_calls,
          closest_input, closest_level, market, tile_rows, tile_log_id, tile_issued,
          tile_calls, tile_last, tile_purged>>

\* the candle cache of the bot instance
candlevars == <<candle_cache, last_candle_fetch, candle_calls>>

\* the argument and the result of find_closest_level
closestvars == <<closest_input, closest_level>>

\* the state of the functions that are checked on their own
\* one live tile of bot_logs and the id the engine remembers for it
tilevars == <<tile_rows, tile_log_id, tile_issued, tile_calls, tile_last, tile_purged>>

unitvars == <<candlevars, closestvars, market, tilevars>>

\* the arguments and the result of the levels algorithm
levelvars == <<lv_candles, lv_price, lv_zones, lv_result, lv_first, lv_between, lv_idx,
               lv_work, lv_runs>>

\* the token loop of one scanner cycle
cyclevars == <<tokens, scan_idx, upserted, scan_failed>>

\* the state of the supervisor and of the scanner worker
enginevars == <<running_bots, sup_pc, sup_sleep, bots, sup_idx, queried, ticked, stamped,
                   ended_early,
                error_logged, failed_bots, scan_pc, scan_sleep, cyclevars, levelvars,
                peer, unitvars>>

\* the state of the bot instance and of its tables
botvars == <<strategy, now, ticks, faults, pc, pair_idx, sweep, sweep_idx, bot_positions,
             bot_trades, positions, position_metadata, last_prices, cached_market_data,
             last_market_data_fetch, last_position_close_time, max_positions_reached,
             orderbook_v2_last_trade_time, orderbook_v2_position_open_time,
             liquidity_grab_events, last_liquidity_grab_check,
             last_support_liquidity_check, break_even_moved, call>>

(* ------------------------------ helpers -------------------------------- *)
RECURSIVE SelectSeqIdx(_, _, _)
\* the first index >= i of s whose element's symbol is sym, 0 when none
SelectSeqIdx(s, sym, i) ==
    IF i > Len(s) THEN 0
    ELSE IF s[i].symbol = sym THEN i
    ELSE SelectSeqIdx(s, sym, i + 1)

HasOpenPosition(ps, sym) == \E i \in DOMAIN ps : ps[i].symbol = sym

NoCall == [kind |-> "none"]
NoEvent == [wick_time |-> NoTime]

NoTile == 0                          \* the pair is not in the log id dictionary

(* --------------------------- the candle cache -------------------------- *)
candle_cache_ttl == 60               \* seconds a cached candle list is reused
MinuteMs == 60000                    \* the cache key rounds start_time to the minute
MaxCandleCalls == 2                  \* calls of get_candles_cached in a behaviour

Intervals == {"15m", "1h"}
StartSet == {0, MinuteMs - 1, MinuteMs}        \* start_time, in ms
\* what candles_snapshot can return: an empty list or a list of candles
FetchedSet == {"[]", "candles_a", "candles_b"}
NoData == "None"                     \* get_candles_cached returns None
NoEntry == "absent"                  \* the key is not in the dictionary

\* cache_key: the pair, the interval and start_time rounded down to the minute
\* (the code joins the three with underscores; a tuple keeps them apart as well)
CandleKey(pair, interval, start_time) ==
    <<pair, interval, (start_time \div MinuteMs) * MinuteMs>>

CandleKeys == {CandleKey(pair, interval, start_time) :
                 pair \in Symbols, interval \in Intervals, start_time \in StartSet}

\* the cache reusing an entry that is exactly candle_cache_ttl old
get_candles_cached_ttl_inclusive(cache, fetch, pair, interval, start_time, current_time, fetch_ok, candles) ==
    LET cache_key == CandleKey(pair, interval, start_time)
        last_fetch == IF fetch[cache_key] = NoTime THEN 0 ELSE fetch[cache_key]
    IN  IF cache[cache_key] # NoEntry /\ current_time - last_fetch <= candle_cache_ttl
        THEN [cache |-> cache, fetch |-> fetch, ret |-> cache[cache_key],
              provider_calls |-> 0]
        ELSE IF fetch_ok
        THEN [cache |-> [cache EXCEPT ![cache_key] = candles],
              fetch |-> [fetch EXCEPT ![cache_key] = current_time],
              ret |-> candles, provider_calls |-> 1]
        ELSE [cache |-> cache, fetch |-> fetch,
              ret |-> IF cache[cache_key] # NoEntry THEN cache[cache_key] ELSE NoData,
              provider_calls |-> 1]

\* the cache giving up on a failed fetch whatever it holds
get_candles_cached_without_stale(cache, fetch, pair, interval, start_time, current_time, fetch_ok, candles) ==
    LET cache_key == CandleKey(pair, interval, start_time)
        last_fetch == IF fetch[cache_key] = NoTime THEN 0 ELSE fetch[cache_key]
    IN  IF cache[cache_key] # NoEntry /\ current_time - last_fetch < candle_cache_ttl
        THEN [cache |-> cache, fetch |-> fetch, ret |-> cache[cache_key],
              provider_calls |-> 0]
        ELSE IF fetch_ok
        THEN [cache |-> [cache EXCEPT ![cache_key] = candles],
              fetch |-> [fetch EXCEPT ![cache_key] = current_time],
              ret |-> candles, provider_calls |-> 1]
        ELSE [cache |-> cache, fetch |-> fetch, ret |-> NoData, provider_calls |-> 1]

\* BotInstance.get_candles_cached at current_time, where candles_snapshot
\* returns candles (fetch_ok) or raises: the two dictionaries after the call,
\* what is returned, and the number of calls of candles_snapshot made.
\* current_time is read before the 1.5 s rate-limit sleep that precedes the fetch.
get_candles_cached(cache, fetch, pair, interval, start_time, current_time, fetch_ok, candles) ==
    LET cache_key == CandleKey(pair, interval, start_time)
        last_fetch == IF fetch[cache_key] = NoTime THEN 0 ELSE fetch[cache_key]
    IN  IF cache[cache_key] # NoEntry /\ current_time - last_fetch < candle_cache_ttl
        THEN [cache |-> cache, fetch |-> fetch, ret |-> cache[cache_key],
              provider_calls |-> 0]
        ELSE IF fetch_ok
        THEN [cache |-> [cache EXCEPT ![cache_key] = candles],
              fetch |-> [fetch EXCEPT ![cache_key] = current_time],
              ret |-> candles, provider_calls |-> 1]
        ELSE [cache |-> cache, fetch |-> fetch,
              ret |-> IF cache[cache_key] # NoEntry THEN cache[cache_key] ELSE NoData,
              provider_calls |-> 1]

(* --------------------------- the other bot ----------------------------- *)
\* bot_data['id'] of this bot and of another running bot
SelfBotId == 1
PeerBotId == 2

\* an open row of the other bot in bot_positions, on a pair this bot trades too
PeerRowId == 0
PeerRow ==
    [id |-> PeerRowId, bot_id |-> PeerBotId, symbol |-> "BTC", side |-> "long",
     size |-> [n |-> 1, d |-> 1], entry_price |-> 10000, current_price |-> 10000,
     stop_loss |-> 9900, take_profit |-> 10200, opened_at |-> 0, closed_at |-> NoTime,
     status |-> "open"]

\* the other BotInstance after it opened that position: its rows in bot_positions
\* and bot_trades, its self.positions and self.position_metadata
PeerInit ==
    [bot_positions |-> <<PeerRow>>,
     bot_trades |-> <<[position_id |-> PeerRowId, bot_id |-> PeerBotId, symbol |-> "BTC",
                       side |-> "buy", size |-> [n |-> 1, d |-> 1], price |-> 10000,
                       closing |-> FALSE]>>,
     positions |-> <<[id |-> PeerRowId, symbol |-> "BTC", side |-> "long",
                      size |-> [n |-> 1, d |-> 1], entry_price |-> 10000,
                      stop_loss |-> 9900, take_profit |-> 10200]>>,
     position_metadata |-> [i \in {PeerRowId} |->
                              [highest_profit_price |-> 10000,
                               first_profit_time |-> NoTime,
                               original_stop_loss |-> 9900]]]

(* ----------------------- the engine's mutable core --------------------- *)
\* The part of the state open_position and close_position read and write,
\* passed through them as one record.
Core == [bp |-> bot_positions, bt |-> bot_trades, ps |-> positions,
         md |-> position_metadata, lct |-> last_position_close_time,
         v2o |-> orderbook_v2_position_open_time, lge |-> liquidity_grab_events,
         bem |-> break_even_moved]

\* size = USD / price if price > 0 else 0, as an exact rational
PositionSizeUnits(position_size_usd, price) ==
    IF price > 0 THEN [n |-> position_size_usd, d |-> price]
    ELSE [n |-> 0, d |-> 1]

\* StopLossOf with the two sides exchanged
StopLossOfSidesSwapped(side, price, stop_loss_pct) ==
    IF side = "long" THEN (price * (100 + stop_loss_pct)) \div 100
    ELSE (price * (100 - stop_loss_pct)) \div 100

StopLossOf(side, price, stop_loss_pct) ==
    IF side = "long" THEN (price * (100 - stop_loss_pct)) \div 100
    ELSE (price * (100 + stop_loss_pct)) \div 100

TakeProfitOf(side, price, take_profit_pct) ==
    IF side = "long" THEN (price * (100 + take_profit_pct)) \div 100
    ELSE (price * (100 - take_profit_pct)) \div 100

\* the dict open_position appends to self.positions / a row reloaded from the store
MemPosition(row) ==
    [id |-> row.id, symbol |-> row.symbol, side |-> row.side, size |-> row.size,
     entry_price |-> row.entry_price, stop_loss |-> row.stop_loss,
     take_profit |-> row.take_profit]

NewMetadata(entry_price, stop_loss) ==
    [highest_profit_price |-> entry_price, first_profit_time |-> NoTime,
     original_stop_loss |-> stop_loss]

OpeningTrade(position_id, pair, side, size, price) ==
    [position_id |-> position_id, bot_id |-> SelfBotId, symbol |-> pair,
     side |-> IF side = "long" THEN "buy" ELSE "sell",
     size |-> size, price |-> price, closing |-> FALSE]

ClosingTrade(position, close_price) ==
    [position_id |-> position.id, bot_id |-> SelfBotId, symbol |-> position.symbol,
     side |-> IF position.side = "long" THEN "sell" ELSE "buy",
     size |-> position.size, price |-> close_price, closing |-> TRUE]

\* the row open_position builds for the bot_positions insert
NewRow(S, pair, side, price) ==
    [id |-> Len(S.bp) + 1, bot_id |-> SelfBotId, symbol |-> pair, side |-> side,
     size |-> PositionSizeUnits(strategy.position_size, price),
     entry_price |-> price, current_price |-> price,
     stop_loss |-> StopLossOf(side, price, strategy.stop_loss_percent),
     take_profit |-> TakeProfitOf(side, price, strategy.take_profit_percent),
     opened_at |-> now, closed_at |-> NoTime, status |-> "open"]

\* the core after both inserts succeeded: rows written, list and metadata updated
Opened(S, row) ==
    [S EXCEPT
       !.bp = Append(S.bp, row),
       !.bt = Append(S.bt, OpeningTrade(row.id, row.symbol, row.side, row.size,
                                        row.entry_price)),
       !.ps = Append(S.ps, MemPosition(row)),
       !.md = [i \in DOMAIN S.md \cup {row.id} |->
                 IF i = row.id THEN NewMetadata(row.entry_price, row.stop_loss)
                 ELSE S.md[i]]]

\* open_position without the test for an insert result that carries no data
open_position_no_data_check(S, pair, side, price, pos_insert, trade_insert) ==
    LET row == NewRow(S, pair, side, price)
    IN  IF pos_insert \in {"exception", "error"} THEN
            [S |-> S, ret |-> FALSE, error_log |-> TRUE]
        ELSE IF trade_insert \in {"exception", "error"} THEN
            [S |-> [S EXCEPT !.bp = Append(S.bp, row)],
             ret |-> FALSE, error_log |-> TRUE]
        ELSE
            [S |-> Opened(S, row), ret |-> TRUE, error_log |-> FALSE]

\* open_position: the core after the call, and the value returned.
\* pos_insert / trade_insert are the outcomes of the two store inserts.
open_position(S, pair, side, price, pos_insert, trade_insert) ==
    LET row == NewRow(S, pair, side, price)
    IN  IF pos_insert # "ok" THEN
            [S |-> S, ret |-> FALSE, error_log |-> TRUE]
        ELSE IF trade_insert # "ok" THEN
            [S |-> [S EXCEPT !.bp = Append(S.bp, row)],
             ret |-> FALSE, error_log |-> TRUE]
        ELSE
            [S |-> Opened(S, row), ret |-> TRUE, error_log |-> FALSE]

\* close_position: the core after the call.
\* update_ok / trade_ok are the outcomes of the row update and the trade insert.
close_position(S, position, close_price, update_ok, trade_ok) ==
    IF position.entry_price * position.size.n = 0 THEN S   \* pnl_pct divides by zero
    ELSE IF ~update_ok THEN S
    ELSE
      LET closed == [S.bp EXCEPT ![position.id].status = "closed",
                                 ![position.id].current_price = close_price,
                                 ![position.id].closed_at = now]
      IN  IF ~trade_ok THEN [S EXCEPT !.bp = closed]
          ELSE [S EXCEPT
                  !.bp = closed,
                  !.bt = Append(S.bt, ClosingTrade(position, close_price)),
                  !.ps = SelectSeq(S.ps, LAMBDA p : p.id # position.id),
                  !.md = [i \in DOMAIN S.md \ {position.id} |-> S.md[i]],
                  !.lge = [S.lge EXCEPT ![position.symbol] = NoEvent],
                  !.v2o = [S.v2o EXCEPT ![position.symbol] = NoTime],
                  !.lct = [S.lct EXCEPT ![position.symbol] = now]]

\* select('*').eq('status', 'open') on the table, of whatever bot
SelectOpenOfAnyBot(table, bot) ==
    SelectSeq(table, LAMBDA r : r.status = "open")

\* select('*').eq('bot_id', self.bot_id).eq('status', 'open') on the table
SelectOpen(table, bot) ==
    SelectSeq(table, LAMBDA r : r.bot_id = bot /\ r.status = "open")

\* bot_positions rows of this bot with status 'open', as self.positions holds them;
\* the table holds the rows bp of this bot and the rows of the other bot
OpenRows(bp) ==
    LET open == SelectOpen(bp \o peer.bot_positions, SelfBotId)
    IN  [i \in DOMAIN open |-> MemPosition(open[i])]

(* ------------------------------- logs ---------------------------------- *)
\* log without its try/except: a failed insert raises to the caller
log_unguarded(write_ok) ==
    [raised |-> ~write_ok, appended |-> write_ok]

\* log: the bot_logs insert in a try whose handler only writes to the logger
log(write_ok) ==
    [raised |-> FALSE, appended |-> write_ok]

UpdateOutcomes == {"ok", "empty", "exception"}

\* the store outcomes of one log_update call: whether the tile id of the pair is
\* known, the outcome of the update (made only then) and of the insert (made
\* only without a successful update)
TileWrites ==
    {w \in [has_tile : BOOLEAN, update : UpdateOutcomes, insert_ok : BOOLEAN] :
        /\ ~w.has_tile => w.update = "ok"
        /\ (w.has_tile /\ w.update = "ok") => w.insert_ok}

\* log_update: update the tile of the pair in place when its id is known and
\* insert a new row when it is not, or when the update raised or matched no row;
\* every exception ends in the outer handler
log_update(has_tile, update, insert_ok) ==
    IF has_tile /\ update = "ok" THEN [raised |-> FALSE, tile |-> "updated"]
    ELSE IF insert_ok THEN [raised |-> FALSE, tile |-> "inserted"]
    ELSE [raised |-> FALSE, tile |-> IF has_tile THEN "stale" ELSE "none"]

(* ------------------------------- Init ---------------------------------- *)
MaxPositionsSet == {1, 2}
DepthSet == {0, 1, 4}

CooldownPeriodSet == {10, DefaultCooldownPeriod}

\* the strategy rows a bot is constructed with; the v2 parameters are read
\* by orderbook_imbalance_v2 only
StrategyConfigs ==
    {c \in [type : StrategyTypes,
            pairs : {Pairs},
            max_positions : MaxPositionsSet,
            position_size : {100},
            stop_loss_percent : {1},
            take_profit_percent : {2},
            imbalance_threshold_pct : {DefaultImbalanceThresholdPct},
            min_hold_time : {DefaultMinHoldTime},
            cooldown_period : CooldownPeriodSet] :
        c.type # "orderbook_imbalance_v2" => c.cooldown_period = DefaultCooldownPeriod}

BotEngineInit ==
    /\ strategy \in StrategyConfigs
    /\ now = Epoch
    /\ ticks = 0
    /\ faults = 0
    /\ pc = "idle"
    /\ pair_idx = 0
    /\ sweep = <<>>
    /\ sweep_idx = 0
    /\ bot_positions = <<>>
    /\ bot_trades = <<>>
    /\ positions = <<>>
    /\ position_metadata = <<>>
    /\ last_prices = [s \in Symbols |-> NoPrice]
    /\ cached_market_data = [s \in Symbols |-> NoPrice]
    /\ last_market_data_fetch = 0
    /\ last_position_close_time = [s \in Symbols |-> 0]
    /\ max_positions_reached = FALSE
    /\ orderbook_v2_last_trade_time = [s \in Symbols |-> 0]
    /\ orderbook_v2_position_open_time = [s \in Symbols |-> NoTime]
    /\ liquidity_grab_events = [s \in Symbols |-> NoEvent]
    /\ last_liquidity_grab_check = 0
    /\ last_support_liquidity_check = 0
    /\ break_even_moved = {}
    /\ call = NoCall
    /\ running_bots = {}
    /\ sup_pc = "tick"
    /\ sup_sleep = 0
    /\ bots = <<>>
    /\ sup_idx = 0
    /\ queried = "none"
    /\ ticked = {}
    /\ stamped = {}
    /\ ended_early = {}
    /\ error_logged = {}
    /\ failed_bots = {}
    /\ scan_pc = "initial"
    /\ scan_sleep = 0
    /\ tokens = <<>>
    /\ scan_idx = 0
    /\ upserted = {}
    /\ scan_failed = {}
    /\ peer = PeerInit
    /\ candle_cache = [k \in CandleKeys |-> NoEntry]
    /\ last_candle_fetch = [k \in CandleKeys |-> NoTime]
    /\ candle_calls = 0
    /\ tile_rows = {}
    /\ tile_log_id = NoTile
    /\ tile_issued = 0
    /\ tile_calls = 0
    /\ tile_last = "none"
    /\ tile_purged = FALSE

\* find_closest_level has not been called
Pending == [type |-> "pending"]
ClosestIdle ==
    /\ closest_input = <<>>
    /\ closest_level = Pending

\* the provider call of get_top_tokens_by_volume raises
NoMarket == [ok |-> FALSE]

\* no call of the levels algorithm is in progress
LevelsIdle ==
    /\ lv_candles = <<>>
    /\ lv_price = 0
    /\ lv_zones = <<>>
    /\ lv_result = <<>>
    /\ lv_first = <<>>
    /\ lv_between = 0
    /\ lv_idx = 0
    /\ lv_work = <<>>
    /\ lv_runs = 0

Init ==
    /\ BotEngineInit
    /\ ClosestIdle
    /\ LevelsIdle
    /\ market = NoMarket

(* --------------------------- frame helpers ----------------------------- *)
SetCore(S) ==
    /\ bot_positions' = S.bp
    /\ bot_trades' = S.bt
    /\ positions' = S.ps
    /\ position_metadata' = S.md
    /\ last_position_close_time' = S.lct
    /\ orderbook_v2_position_open_time' = S.v2o
    /\ liquidity_grab_events' = S.lge
    /\ break_even_moved' = S.bem

\* n of the calls this step makes fail
Fail(n) == faults + n <= MaxFaults /\ faults' = faults + n

B2N(b) == IF b THEN 1 ELSE 0

\* the strategy loop moves to the next pair, or the strategy returns
NextPair ==
    IF pair_idx < Len(strategy.pairs)
    THEN pc' = "strategy" /\ pair_idx' = pair_idx + 1
    ELSE pc' = "refresh" /\ pair_idx' = 0

TickFrame ==
    /\ UNCHANGED <<strategy, now, ticks, sweep, sweep_idx, last_prices, cached_market_data,
                   last_market_data_fetch, max_positions_reached,
                   last_liquidity_grab_check, last_support_liquidity_check>>
    /\ UNCHANGED enginevars

\* a pair of the loop that is skipped or produces no entry; S is the core it
\* leaves, c what the evaluator did instead
StayPairWith(S, c) ==
    /\ NextPair
    /\ Fail(0)
    /\ call' = c
    /\ SetCore(S)
    /\ UNCHANGED orderbook_v2_last_trade_time
    /\ TickFrame

StayPair(S) == StayPairWith(S, NoCall)

SkipPair == StayPair(Core)

\* the evaluators after open_position returned True, liquidity_grab keeping its event
AfterOpenKeepingEvent(S, pair) ==
    CASE strategy.type = "orderbook_imbalance_v2" ->
           [S EXCEPT !.v2o = [S.v2o EXCEPT ![pair] = now]]
      [] OTHER -> S

\* what the evaluator does after open_position returned True
AfterOpen(S, pair) ==
    CASE strategy.type = "orderbook_imbalance_v2" ->
           [S EXCEPT !.v2o = [S.v2o EXCEPT ![pair] = now]]
      [] strategy.type = "liquidity_grab" ->
           [S EXCEPT !.lge = [S.lge EXCEPT ![pair] = NoEvent]]
      [] OTHER -> S

\* a strategy's call of open_position for the current pair, from core S;
\* fetched: every market-data fetch for the pair returned data in this tick;
\* seen: the market data the evaluator decided on
EnterPairSeen(S, pair, side, price, fetched, seen) ==
    /\ Len(bot_positions) < MaxIds
    /\ \E pos_insert \in InsertOutcomes, trade_insert \in InsertOutcomes,
          log_ok \in BOOLEAN :
         LET r == open_position(S, pair, side, price, pos_insert, trade_insert)
             \* the 'trade' log of a success, the 'error' log of a failure
             l == log(log_ok)
         IN  \* the trade insert is not attempted after a failed position insert
             /\ pos_insert # "ok" => trade_insert = "ok"
             /\ Fail(B2N(pos_insert # "ok") + B2N(trade_insert # "ok") + B2N(~log_ok))
             /\ SetCore(IF r.ret THEN AfterOpen(r.S, pair) ELSE r.S)
             /\ orderbook_v2_last_trade_time' =
                    IF r.ret /\ strategy.type = "orderbook_imbalance_v2"
                    THEN [orderbook_v2_last_trade_time EXCEPT ![pair] = now]
                    ELSE orderbook_v2_last_trade_time
             /\ call' = [kind |-> "open", symbol |-> pair, pos_insert |-> pos_insert,
                         trade_insert |-> trade_insert,
                         ret |-> r.ret, error_log |-> r.error_log,
                         fetched |-> fetched, log_ok |-> log_ok,
                         log_raised |-> l.raised, seen |-> seen, side |-> side,
                         price |-> price]
             /\ IF l.raised THEN pc' = "sleep" /\ pair_idx' = 0 ELSE NextPair
    /\ TickFrame

EnterPairData(S, pair, side, price, fetched) ==
    EnterPairSeen(S, pair, side, price, fetched, <<>>)

EnterPairFrom(S, pair, side, price) == EnterPairData(S, pair, side, price, TRUE)

EnterPair(pair, side, price) == EnterPairFrom(Core, pair, side, price)

(* ------------------------------ tick ----------------------------------- *)
\* where the strategy dispatched by tick starts: the code before its pair loop
StrategyEntry(loaded, t) ==
    CASE strategy.type \in {"orderbook_imbalance", "momentum_breakout"} ->
           [loop |-> Len(loaded) < strategy.max_positions,
            lgc |-> last_liquidity_grab_check, slc |-> last_support_liquidity_check]
      [] strategy.type \in {"orderbook_imbalance_v2", "multi_timeframe_breakout"} ->
           [loop |-> TRUE,
            lgc |-> last_liquidity_grab_check, slc |-> last_support_liquidity_check]
      [] strategy.type = "liquidity_grab" ->
           IF t - last_liquidity_grab_check < liquidity_grab_check_interval
           THEN [loop |-> FALSE, lgc |-> last_liquidity_grab_check,
                 slc |-> last_support_liquidity_check]
           ELSE [loop |-> Len(loaded) < strategy.max_positions, lgc |-> t,
                 slc |-> last_support_liquidity_check]
      [] strategy.type = "support_liquidity" ->
           IF t - last_support_liquidity_check < 5
           THEN [loop |-> FALSE, lgc |-> last_liquidity_grab_check,
                 slc |-> last_support_liquidity_check]
           ELSE [loop |-> Len(loaded) < strategy.max_positions,
                 lgc |-> last_liquidity_grab_check, slc |-> t]
      [] OTHER ->
           [loop |-> FALSE,
            lgc |-> last_liquidity_grab_check, slc |-> last_support_liquidity_check]

\* the provider quotes every configured symbol; the symbols move together
MidsSet == {[s \in Symbols |-> p] : p \in PriceSet}
NoMids == [s \in Symbols |-> NoPrice]

\* the snapshot reused when it is exactly market_data_cache_ttl old
MidsCacheHitInclusive(current_time, last_fetch) ==
    current_time - last_fetch <= market_data_cache_ttl

\* the cache test of tick: the snapshot is younger than market_data_cache_ttl
MidsCacheHit(current_time, last_fetch) ==
    current_time - last_fetch < market_data_cache_ttl

\* BotInstance.tick up to the strategy's pair loop: prices, reload, dispatch
tick ==
    /\ pc = "idle"
    /\ ticks < MaxTicks
    /\ ticks' = ticks + 1
    /\ \E fetch_ok \in BOOLEAN, mids \in MidsSet, load_ok \in BOOLEAN :
         LET hit == MidsCacheHit(now, last_market_data_fetch)
             have == hit \/ fetch_ok \/ cached_market_data # NoMids
             all_mids == IF hit THEN cached_market_data
                         ELSE IF fetch_ok THEN mids ELSE cached_market_data
             loaded == OpenRows(bot_positions)
             entry == StrategyEntry(loaded, now)
         IN  \* a response that is not read is not an input
             /\ (hit \/ ~fetch_ok) => mids = CHOOSE m \in MidsSet : TRUE
             /\ hit => fetch_ok
             /\ Fail(B2N(~fetch_ok) + B2N(~load_ok))
             /\ cached_market_data' = IF ~hit /\ fetch_ok THEN mids ELSE cached_market_data
             /\ last_market_data_fetch' = IF ~hit /\ fetch_ok THEN now
                                          ELSE last_market_data_fetch
             /\ IF ~have
                THEN \* no market data at all: error log, return
                     /\ load_ok
                     /\ pc' = "sleep"
                     /\ UNCHANGED <<pair_idx, positions, last_prices,
                                    max_positions_reached, last_liquidity_grab_check,
                                    last_support_liquidity_check>>
                ELSE /\ last_prices' = [s \in Symbols |->
                                          IF all_mids[s] # NoPrice THEN all_mids[s]
                                          ELSE last_prices[s]]
                     /\ IF ~load_ok
                        THEN \* the select of the open positions raises out of tick
                             /\ pc' = "sleep"
                             /\ UNCHANGED <<pair_idx, positions, max_positions_reached,
                                            last_liquidity_grab_check,
                                            last_support_liquidity_check>>
                        ELSE /\ positions' = loaded
                             /\ max_positions_reached' =
                                    (Len(loaded) >= strategy.max_positions)
                             /\ last_liquidity_grab_check' = entry.lgc
                             /\ last_support_liquidity_check' = entry.slc
                             /\ IF entry.loop
                                THEN pc' = "strategy" /\ pair_idx' = 1
                                ELSE pc' = "refresh" /\ pair_idx' = 0
             /\ call' = [kind |-> "mids", hit |-> hit, fetch_ok |-> fetch_ok,
                         error_log |-> ~have]
    /\ UNCHANGED <<strategy, now, sweep, sweep_idx, bot_positions, bot_trades,
                   position_metadata, last_position_close_time,
                   orderbook_v2_last_trade_time, orderbook_v2_position_open_time,
                   liquidity_grab_events, break_even_moved>>
    /\ UNCHANGED enginevars

\* BotEngine.start: the pause between two cycles (and the time the cycle took)
sleep ==
    /\ pc = "sleep"
    /\ ticks < MaxTicks
    /\ \E dt \in DtSet : now' = now + dt
    /\ pc' = "idle"
    /\ call' = NoCall
    /\ UNCHANGED <<strategy, ticks, faults, pair_idx, sweep, sweep_idx, bot_positions, bot_trades,
                   positions, position_metadata, last_prices, cached_market_data,
                   last_market_data_fetch, last_position_close_time,
                   max_positions_reached, orderbook_v2_last_trade_time,
                   orderbook_v2_position_open_time, liquidity_grab_events,
                   last_liquidity_grab_check, last_support_liquidity_check,
                   break_even_moved>>
    /\ UNCHANGED enginevars

(* ----------------------- orderbook_imbalance (v1) ---------------------- *)
\* an L2 book as the evaluators read it: depth sums and the best prices
Books == {b \in [bid_depth : DepthSet, ask_depth : DepthSet,
                 best_bid : BookPriceSet, best_ask : BookPriceSet] :
            b.best_bid <= b.best_ask}
NoBook == [bid_depth |-> 0, ask_depth |-> 0, best_bid |-> 0, best_ask |-> 0]

\* imbalance_ratio = bid_depth / ask_depth if ask_depth > 0 else 0;
\* > 3.0 long, < 0.33 short
V1Signal(book) ==
    IF book.bid_depth + book.ask_depth = 0 THEN "none"
    ELSE IF book.ask_depth > 0 /\ book.bid_depth > 3 * book.ask_depth THEN "long"
    ELSE IF book.ask_depth = 0 \/ 100 * book.bid_depth < 33 * book.ask_depth THEN "short"
    ELSE "none"

run_orderbook_imbalance_strategy ==
    /\ pc = "strategy"
    /\ strategy.type = "orderbook_imbalance"
    /\ LET pair == strategy.pairs[pair_idx]
       IN  IF HasOpenPosition(positions, pair) THEN SkipPair
           ELSE \E book \in Books :
                  CASE V1Signal(book) = "long" ->
                         EnterPairSeen(Core, pair, "long", book.best_ask, TRUE, book)
                    [] V1Signal(book) = "short" ->
                         EnterPairSeen(Core, pair, "short", book.best_bid, TRUE, book)
                    [] OTHER -> book = NoBook /\ SkipPair

(* --------------------------- check_positions --------------------------- *)
\* pnl_pct >= 0.15, with pnl_pct = (current - entry) / entry * 100 (long)
PnlPctAtLeastBreakEven(side, entry_price, current_price) ==
    IF side = "long" THEN (current_price - entry_price) * 10000 >= 15 * entry_price
    ELSE (entry_price - current_price) * 10000 >= 15 * entry_price

\* pnl_pct at price a is greater than pnl_pct at price b
PnlPctGreater(side, a, b) == IF side = "long" THEN a > b ELSE a < b

Abs(x) == IF x < 0 THEN -x ELSE x

\* a stop moved half way to the entry price only
BreakEvenStopHalfWay(position) == (position.entry_price + position.stop_loss) \div 2

\* the stop the break-even protection writes
BreakEvenStop(position) == position.entry_price

\* break-even protection applies: in profit by 0.15 %, stop on the loss side of entry
BreakEvenDue(position, current_price) ==
    /\ PnlPctAtLeastBreakEven(position.side, position.entry_price, current_price)
    /\ position.stop_loss # 0
    /\ IF position.side = "long" THEN position.stop_loss < position.entry_price
       ELSE position.stop_loss > position.entry_price
    /\ Abs(BreakEvenStop(position) - position.stop_loss) > BreakEvenEps

\* the standard TP/SL test: the reason to close, "" when none
ExitReason(side, current_price, stop_loss, take_profit) ==
    IF side = "long"
    THEN IF stop_loss # 0 /\ current_price <= stop_loss THEN "Stop Loss"
         ELSE IF take_profit # 0 /\ current_price >= take_profit THEN "Take Profit"
         ELSE ""
    ELSE IF stop_loss # 0 /\ current_price >= stop_loss THEN "Stop Loss"
         ELSE IF take_profit # 0 /\ current_price <= take_profit THEN "Take Profit"
         ELSE ""

\* the refresh at the top of check_positions: self.positions and the metadata after it
RefreshPositions(ps, md, bp, refresh_ok) ==
    LET loaded == OpenRows(bp)
    IN  IF refresh_ok /\ Len(loaded) > 0
        THEN [ps |-> loaded,
              md |-> [i \in DOMAIN md \cup {loaded[k].id : k \in DOMAIN loaded} |->
                        IF i \in DOMAIN md THEN md[i]
                        ELSE LET k == CHOOSE k \in DOMAIN loaded : loaded[k].id = i
                             IN  NewMetadata(loaded[k].entry_price, loaded[k].stop_loss)]]
        ELSE [ps |-> ps, md |-> md]

check_positions_refresh ==
    /\ pc = "refresh"
    /\ \E refresh_ok \in BOOLEAN :
         LET r == RefreshPositions(positions, position_metadata, bot_positions, refresh_ok)
         IN  /\ Fail(B2N(~refresh_ok))
             /\ positions' = r.ps
             /\ position_metadata' = r.md
             /\ IF Len(r.ps) = 0
                THEN pc' = "sleep" /\ sweep' = <<>> /\ sweep_idx' = 0
                ELSE pc' = "sweep" /\ sweep' = r.ps /\ sweep_idx' = 1
    /\ call' = NoCall
    /\ UNCHANGED <<strategy, now, ticks, pair_idx, bot_positions, bot_trades, last_prices,
                   cached_market_data, last_market_data_fetch, last_position_close_time,
                   max_positions_reached, orderbook_v2_last_trade_time,
                   orderbook_v2_position_open_time, liquidity_grab_events,
                   last_liquidity_grab_check, last_support_liquidity_check,
                   break_even_moved>>
    /\ UNCHANGED enginevars

\* the metadata of one position after the profit tracking of the loop body
TrackProfit(md, position, current_price) ==
    LET m0 == IF position.id \in DOMAIN md THEN md[position.id]
              ELSE NewMetadata(position.entry_price, position.stop_loss)
        m1 == IF PnlPctGreater(position.side, current_price, m0.highest_profit_price)
              THEN [m0 EXCEPT !.highest_profit_price = current_price] ELSE m0
        m2 == IF PnlPctGreater(position.side, current_price, position.entry_price)
                 /\ m1.first_profit_time = NoTime
              THEN [m1 EXCEPT !.first_profit_time = now] ELSE m1
    IN  [i \in DOMAIN md \cup {position.id} |-> IF i = position.id THEN m2 ELSE md[i]]

\* one iteration of the loop of check_positions over `position`.
\* mark_ok, be_ok, update_ok, trade_ok: outcomes of the store writes it makes.
\* Result: the core after it, whether it raised out of check_positions, and
\* which writes it attempted.
SweepPosition(S, position, current_price, mark_ok, be_ok, update_ok, trade_ok) ==
    LET idle == [S |-> S, raised |-> FALSE, marked |-> FALSE, be |-> FALSE,
                 reason |-> ""]
    IN
    IF current_price = NoPrice THEN idle
    ELSE IF position.entry_price * position.size.n = 0
    THEN [idle EXCEPT !.raised = TRUE]          \* pnl_pct: ZeroDivisionError
    ELSE IF ~mark_ok
    THEN [idle EXCEPT !.raised = TRUE, !.marked = TRUE]  \* the update raises
    ELSE
      LET bp1 == [S.bp EXCEPT ![position.id].current_price = current_price]
          md1 == TrackProfit(S.md, position, current_price)
          be_due == BreakEvenDue(position, current_price)
          moved == be_due /\ be_ok
          new_sl == BreakEvenStop(position)
          stop_loss == IF moved THEN new_sl ELSE position.stop_loss
          bp2 == IF moved THEN [bp1 EXCEPT ![position.id].stop_loss = new_sl] ELSE bp1
          ps2 == IF moved
                 THEN [i \in DOMAIN S.ps |->
                         IF S.ps[i].id = position.id
                         THEN [S.ps[i] EXCEPT !.stop_loss = new_sl] ELSE S.ps[i]]
                 ELSE S.ps
          S2 == [S EXCEPT !.bp = bp2, !.md = md1, !.ps = ps2,
                          !.bem = IF moved THEN S.bem \cup {position.id} ELSE S.bem]
          \* the distance debug line: divides by current_price, formats None
          debug_raises == current_price = 0 \/ stop_loss = 0 \/ position.take_profit = 0
          reason == ExitReason(position.side, current_price, stop_loss,
                               position.take_profit)
      IN  IF debug_raises
          THEN [S |-> S2, raised |-> TRUE, marked |-> TRUE, be |-> be_due, reason |-> ""]
          ELSE IF reason = ""
          THEN [S |-> S2, raised |-> FALSE, marked |-> TRUE, be |-> be_due, reason |-> ""]
          ELSE [S |-> close_position(S2, [position EXCEPT !.stop_loss = stop_loss],
                                     current_price, update_ok, trade_ok),
                raised |-> FALSE, marked |-> TRUE, be |-> be_due, reason |-> reason]

check_positions ==
    /\ pc = "sweep"
    /\ LET position == sweep[sweep_idx]
           current_price == last_prices[position.symbol]
       IN  \E mark_ok \in BOOLEAN, be_ok \in BOOLEAN,
              update_ok \in BOOLEAN, trade_ok \in BOOLEAN,
              tile \in TileWrites, log_ok \in BOOLEAN :
             LET r == SweepPosition(Core, position, current_price,
                                    mark_ok, be_ok, update_ok, trade_ok)
                 \* the position status tile, written after the mark
                 tiled == r.marked /\ mark_ok
                 lu == log_update(tile.has_tile, tile.update, tile.insert_ok)
                 \* the 'trade' or 'error' log that ends close_position
                 l == log(log_ok)
                 tile_ok == lu.tile \in {"updated", "inserted"}
                 log_raised == (tiled /\ lu.raised) \/ (r.reason # "" /\ l.raised)
             IN  \* outcomes of writes that are not attempted are not inputs
                 /\ ~tiled => tile = [has_tile |-> TRUE, update |-> "ok", insert_ok |-> TRUE]
                 /\ r.reason = "" => log_ok
                 \* a failed store write of close_position returns before the log
                 /\ (~update_ok \/ ~trade_ok) => log_ok
                 /\ ~r.marked => mark_ok
                 /\ ~r.be => be_ok
                 /\ r.reason = "" => update_ok /\ trade_ok
                 /\ ~update_ok => trade_ok
                 /\ Fail(B2N(~mark_ok) + B2N(~be_ok) + B2N(~update_ok) + B2N(~trade_ok)
                           + B2N(~tile_ok) + B2N(~log_ok))
                 /\ SetCore(r.S)
                 /\ call' = IF r.reason = ""
                            THEN IF tile_ok THEN NoCall
                                 ELSE [kind |-> "tile", id |-> position.id,
                                       log_ok |-> FALSE, log_raised |-> log_raised]
                            ELSE [kind |-> "close", id |-> position.id,
                                  reason |-> r.reason, update_ok |-> update_ok,
                                  trade_ok |-> trade_ok,
                                  log_ok |-> log_ok /\ tile_ok,
                                  log_raised |-> log_raised]
                 /\ IF r.raised \/ log_raised \/ sweep_idx >= Len(sweep)
                    THEN pc' = "sleep" /\ sweep' = <<>> /\ sweep_idx' = 0
                    ELSE pc' = "sweep" /\ sweep' = sweep /\ sweep_idx' = sweep_idx + 1
    /\ UNCHANGED <<strategy, now, ticks, pair_idx, last_prices, cached_market_data,
                   last_market_data_fetch, max_positions_reached,
                   orderbook_v2_last_trade_time, last_liquidity_grab_check,
                   last_support_liquidity_check>>
    /\ UNCHANGED enginevars

(* ------------------------ orderbook_imbalance_v2 ----------------------- *)
\* the strategy exit of v2 for the open position of the pair: "" when none
V2ExitReason(side, time_in_position, bid_volume, ask_volume) ==
    IF time_in_position >= strategy.min_hold_time
    THEN IF side = "long"
            /\ 100 * bid_volume
                 < (100 - strategy.imbalance_threshold_pct) * (bid_volume + ask_volume)
         THEN "Imbalance reversed"
         ELSE IF time_in_position >= strategy.min_hold_time * 2
         THEN "Max hold time reached"
         ELSE ""
    ELSE ""

\* the exit branch: close_position, then the trade time and open time bookkeeping
V2ExitPair(pair, position, reason) ==
    /\ \E update_ok \in BOOLEAN, trade_ok \in BOOLEAN, log_ok \in BOOLEAN :
         LET S1 == close_position(Core, position, last_prices[pair], update_ok, trade_ok)
             \* the 'trade' or 'error' log that ends close_position
             l == log(log_ok)
         IN  /\ ~update_ok => trade_ok
             \* a failed store write returns before the log
             /\ (~update_ok \/ ~trade_ok) => log_ok
             /\ Fail(B2N(~update_ok) + B2N(~trade_ok) + B2N(~log_ok))
             /\ SetCore(IF l.raised THEN S1
                        ELSE [S1 EXCEPT !.v2o = [S1.v2o EXCEPT ![pair] = NoTime]])
             /\ call' = [kind |-> "close", id |-> position.id, reason |-> reason,
                         update_ok |-> update_ok, trade_ok |-> trade_ok,
                         log_ok |-> log_ok, log_raised |-> l.raised]
             /\ orderbook_v2_last_trade_time' =
                    IF l.raised THEN orderbook_v2_last_trade_time
                    ELSE [orderbook_v2_last_trade_time EXCEPT ![pair] = now]
             /\ IF l.raised THEN pc' = "sleep" /\ pair_idx' = 0 ELSE NextPair
    /\ TickFrame

\* the branches of the loop body with the cooldown test ahead of the exit
V2DecisionCooldownFirst(exit_reason, n_positions, cooldown_remaining, signal, current_price) ==
    IF cooldown_remaining > 0 THEN "cooldown"
    ELSE IF exit_reason # "" THEN "exit"
    ELSE IF n_positions >= strategy.max_positions THEN "max_positions"
    ELSE IF ~signal THEN "no_signal"
    ELSE IF current_price = NoPrice \/ current_price = 0 THEN "no_price"
    ELSE "enter"

\* the branch the loop body takes once the book has volume: the exit first,
\* then the position limit, the cooldown, and the entry signal
V2Decision(exit_reason, n_positions, cooldown_remaining, signal, current_price) ==
    IF exit_reason # "" THEN "exit"
    ELSE IF n_positions >= strategy.max_positions THEN "max_positions"
    ELSE IF cooldown_remaining > 0 THEN "cooldown"
    ELSE IF ~signal THEN "no_signal"
    ELSE IF current_price = NoPrice \/ current_price = 0 THEN "no_price"
    ELSE "enter"

run_orderbook_imbalance_v2_strategy ==
    /\ pc = "strategy"
    /\ strategy.type = "orderbook_imbalance_v2"
    /\ LET pair == strategy.pairs[pair_idx]
           has_open_position == HasOpenPosition(positions, pair)
       IN  \E bid_volume \in DepthSet, ask_volume \in DepthSet :
             IF bid_volume + ask_volume = 0 THEN SkipPair
             ELSE
               LET position == positions[SelectSeqIdx(positions, pair, 1)]
                   position_open_time ==
                       IF orderbook_v2_position_open_time[pair] = NoTime THEN now
                       ELSE orderbook_v2_position_open_time[pair]
                   exit_reason ==
                       IF has_open_position
                       THEN V2ExitReason(position.side, now - position_open_time,
                                         bid_volume, ask_volume)
                       ELSE ""
                   cooldown_remaining ==
                       strategy.cooldown_period - (now - orderbook_v2_last_trade_time[pair])
                   current_price == last_prices[pair]
                   signal == 100 * bid_volume
                               > strategy.imbalance_threshold_pct * (bid_volume + ask_volume)
                   seen == [bid_volume |-> bid_volume, ask_volume |-> ask_volume]
                   decision == V2Decision(exit_reason, Len(positions), cooldown_remaining,
                                          signal, current_price)
               IN  CASE decision = "exit" -> V2ExitPair(pair, position, exit_reason)
                     [] decision = "enter" ->
                          EnterPairSeen(Core, pair, "long", current_price, TRUE, seen)
                     [] OTHER ->
                          StayPairWith(Core, [kind |-> "skip", symbol |-> pair,
                                              reason |-> decision, seen |-> seen])

(* --------------------------- momentum_breakout ------------------------- *)
OldPriceSet == {9600, 10000, 10400}  \* close of the oldest 1m candle of the window

run_momentum_breakout_strategy ==
    /\ pc = "strategy"
    /\ strategy.type = "momentum_breakout"
    /\ LET pair == strategy.pairs[pair_idx]
           current_price == last_prices[pair]
       IN  IF HasOpenPosition(positions, pair) \/ current_price = NoPrice THEN SkipPair
           ELSE \E enough_candles \in BOOLEAN, old_price \in OldPriceSet :
                  \* momentum = (current_price - old_price) / old_price * 100
                  IF ~enough_candles
                  THEN old_price = 10000 /\ SkipPair
                  ELSE IF (current_price - old_price) * 100 > 2 * old_price
                  THEN EnterPair(pair, "long", current_price)
                  ELSE IF (current_price - old_price) * 100 < (-2) * old_price
                  THEN EnterPair(pair, "short", current_price)
                  ELSE SkipPair

(* ----------------------- multi_timeframe_breakout ---------------------- *)
LowSet == {0, 10000}                 \* low of the last closed candle
VolumeSet == {0, 2}                  \* average volume of the closed candles

\* what get_candles_cached gives for one timeframe: nothing (the fetch raised,
\* or returned None or no candle), or candles with a last closed one
NoCandles == [ok |-> FALSE]
CandleSet(volumes) == {NoCandles} \cup [ok : {TRUE}, l : LowSet, v : volumes]

\* lows[tf] and volumes[tf]: the current price and 0 stand in for missing candles
TimeframeLow(candles, current_price) ==
    IF candles.ok THEN candles.l ELSE current_price

TimeframeVolume(candles) ==
    IF candles.ok THEN candles.v ELSE 0

\* calculate_volume_weight(volumes) > 0.5: the weight is 1.0 on a zero baseline,
\* else the 15m volume over the 30m volume clamped to [0.5, 3.0]
HasVolume(volume_15m, volume_30m) ==
    volume_30m = 0 \/ 2 * volume_15m > volume_30m

\* price at or below the low, within wiggle_low = 0.05 % of it
NearLow(current_price, low) ==
    /\ low > 0
    /\ current_price <= low
    /\ Abs(current_price - low) * 10000 <= 5 * low

\* the 1h candles of the last two hours as get_candles_cached gives them for
\* the downtrend filter: nothing, or up to two candles of which the last one
\* is still forming; every candle opens at TrendOpen
TrendOpen == 10000
TrendCloseSet == {9900, 10000, 10100}
TrendCandle(c) == [o |-> TrendOpen, c |-> c]
TrendSet ==
    {NoCandles, [ok |-> TRUE, candles |-> <<TrendCandle(9900)>>]}
      \cup {[ok |-> TRUE, candles |-> <<TrendCandle(closed),
                                        TrendCandle(IF closed < TrendOpen THEN 10100
                                                    ELSE 9900)>>] :
               closed \in TrendCloseSet}

\* the downtrend filter reading the candle that is still forming
IsDowntrendOfFormingCandle(trend) ==
    /\ trend.ok
    /\ Len(trend.candles) > 1
    /\ trend.candles[Len(trend.candles)].c < trend.candles[Len(trend.candles)].o

\* is_downtrend: the second-to-last candle closed below its open; FALSE when
\* the candles are missing or there is only one
IsDowntrend(trend) ==
    /\ trend.ok
    /\ Len(trend.candles) > 1
    /\ trend.candles[Len(trend.candles) - 1].c < trend.candles[Len(trend.candles) - 1].o

run_multi_timeframe_breakout_strategy ==
    /\ pc = "strategy"
    /\ strategy.type = "multi_timeframe_breakout"
    /\ LET pair == strategy.pairs[pair_idx]
           current_price == last_prices[pair]
           has_open_position == HasOpenPosition(positions, pair)
       IN  IF current_price = NoPrice THEN SkipPair
           ELSE \E trend \in TrendSet :
                  IF IsDowntrend(trend) THEN SkipPair
                  ELSE IF has_open_position \/ max_positions_reached THEN SkipPair
                  ELSE IF now - last_position_close_time[pair] < position_cooldown
                  THEN SkipPair
                  \* the candles of the three timeframes were fetched before the
                  \* tests above, which read none of them
                  ELSE \E candles_1h \in CandleSet({0}),     \* its volume is not read
                          candles_30m \in CandleSet(VolumeSet),
                          candles_15m \in CandleSet(VolumeSet) :
                         LET low_1h == TimeframeLow(candles_1h, current_price)
                             low_30m == TimeframeLow(candles_30m, current_price)
                             low_15m == TimeframeLow(candles_15m, current_price)
                             has_volume == HasVolume(TimeframeVolume(candles_15m),
                                                     TimeframeVolume(candles_30m))
                             fetched == candles_1h.ok /\ candles_30m.ok /\ candles_15m.ok
                         IN  IF has_volume /\ (\/ NearLow(current_price, low_1h)
                                               \/ NearLow(current_price, low_30m)
                                               \/ NearLow(current_price, low_15m))
                             THEN EnterPairSeen(Core, pair, "long", current_price,
                                                fetched, trend)
                             ELSE SkipPair

(* ---------------------------- liquidity_grab --------------------------- *)
SupportSet == {0, 10000}             \* low of the last closed candle, 0: none

\* price at or below the support, or within wick_threshold = 0.1 % above it
WickAt(current_price, support) ==
    support # 0 /\ current_price * 1000 <= support * 1001

\* self.liquidity_grab_events[pair] after the wick detection
WickEvent(wick_event, current_price, support_1h, support_30m) ==
    IF WickAt(current_price, support_1h)
    THEN IF wick_event = NoEvent \/ wick_event.support_level # support_1h
         THEN [wick_time |-> now, support_level |-> support_1h, support_tf |-> "1h",
               wick_price |-> current_price]
         ELSE wick_event
    ELSE IF WickAt(current_price, support_30m)
    THEN IF wick_event = NoEvent \/ wick_event.support_level # support_30m
         THEN [wick_time |-> now, support_level |-> support_30m, support_tf |-> "30m",
               wick_price |-> current_price]
         ELSE wick_event
    ELSE wick_event

\* the bounce test without the timeout of the event
BounceWithoutTimeout(wick_event, current_price, volume_ok) ==
    LET recovered == wick_event.wick_price > 0
                     /\ (current_price - wick_event.wick_price) * 1000
                          >= wick_event.wick_price
        price_near_support == current_price * 1000 >= wick_event.support_level * 998
    IN  IF price_near_support /\ (volume_ok \/ recovered) THEN "enter" ELSE "wait"

\* the bounce test on the event read before the wick detection:
\* "enter", "expire" (delete the event) or "wait"
Bounce(wick_event, current_price, volume_ok) ==
    LET time_since_wick == now - wick_event.wick_time
        recovered == wick_event.wick_price > 0
                     /\ (current_price - wick_event.wick_price) * 1000
                          >= wick_event.wick_price
        price_near_support == current_price * 1000 >= wick_event.support_level * 998
    IN  IF price_near_support
        THEN IF time_since_wick <= liquidity_grab_timeout
             THEN IF volume_ok \/ recovered THEN "enter" ELSE "wait"
             ELSE "expire"
        ELSE IF time_since_wick > liquidity_grab_timeout THEN "expire" ELSE "wait"

run_liquidity_grab_strategy ==
    /\ pc = "strategy"
    /\ strategy.type = "liquidity_grab"
    /\ LET pair == strategy.pairs[pair_idx]
           current_price == last_prices[pair]
           wick_event == liquidity_grab_events[pair]
       IN  IF HasOpenPosition(positions, pair) \/ current_price = NoPrice THEN SkipPair
           ELSE \E support_1h \in SupportSet, support_30m \in SupportSet,
                   is_downtrend \in BOOLEAN, volume_ok \in BOOLEAN :
                  IF is_downtrend
                  THEN StayPairWith(Core, [kind |-> "skip", symbol |-> pair,
                                           reason |-> "downtrend"])
                  ELSE
                    LET event1 == WickEvent(wick_event, current_price,
                                            support_1h, support_30m)
                        S1 == [Core EXCEPT !.lge = [Core.lge EXCEPT ![pair] = event1]]
                        bounce == IF wick_event = NoEvent THEN "wait"
                                  ELSE Bounce(wick_event, current_price, volume_ok)
                    IN  CASE bounce = "enter" ->
                               EnterPairSeen(S1, pair, "long", current_price, TRUE,
                                             [volume_ok |-> volume_ok])
                          [] bounce = "expire" ->
                               StayPairWith(
                                 [S1 EXCEPT !.lge = [S1.lge EXCEPT ![pair] = NoEvent]],
                                 [kind |-> "expire", symbol |-> pair])
                          [] OTHER ->
                               StayPairWith(S1, [kind |-> "monitor", symbol |-> pair])

(* --------------------------- support_liquidity ------------------------- *)
ScannerSupportSet == {0, 10000}      \* price of the scanner's support level, 0: none
NetFlowSet == {-1, 0, 1}             \* buy volume minus sell volume of the recent trades

\* the entry conditions: a support level and a liquidity flow exist, the price is
\* within 0.15 % of the support and not more than 0.15 % below it, and the net
\* flow is positive
SupportSignal(current_price, support_price, has_flow, net_flow) ==
    /\ support_price # 0
    /\ has_flow
    /\ Abs(current_price - support_price) * 10000 <= 15 * support_price
    /\ net_flow > 0                                  \* liquidity_flow['is_bullish']
    /\ current_price * 10000 >= support_price * 9985
    /\ net_flow > 0                                  \* is_positive_flow

\* whether a BotInstance has the attribute last_market_metrics_update_time:
\* __init__ does not create it and the only assignment is to one of its keys
HasMarketMetricsUpdateTime == FALSE

\* a pair of the loop whose evaluation ended without a call of open_position
EvaluatedPair(pair, price, signal) ==
    /\ NextPair
    /\ Fail(0)
    /\ call' = [kind |-> "evaluate", symbol |-> pair, price |-> price,
                signal |-> signal]
    /\ SetCore(Core)
    /\ UNCHANGED orderbook_v2_last_trade_time
    /\ TickFrame

run_support_liquidity_strategy ==
    /\ pc = "strategy"
    /\ strategy.type = "support_liquidity"
    /\ LET pair == strategy.pairs[pair_idx]
           current_price == last_prices[pair]
       IN  IF HasOpenPosition(positions, pair) THEN SkipPair
           ELSE IF current_price = NoPrice THEN SkipPair
           ELSE \E support_price \in ScannerSupportSet, has_flow \in BOOLEAN,
                   net_flow \in NetFlowSet :
                  LET signal == SupportSignal(current_price, support_price,
                                              has_flow, net_flow)
                  IN  IF ~HasMarketMetricsUpdateTime
                      THEN \* the read of the attribute raises AttributeError, which
                           \* the handler of the pair logs before the loop moves on
                           EvaluatedPair(pair, current_price, signal)
                      ELSE IF signal THEN EnterPair(pair, "long", current_price)
                      ELSE EvaluatedPair(pair, current_price, FALSE)

(* ---------------------------- specification ---------------------------- *)
Next ==
    \/ tick
    \/ sleep
    \/ run_orderbook_imbalance_strategy
    \/ run_orderbook_imbalance_v2_strategy
    \/ run_multi_timeframe_breakout_strategy
    \/ run_momentum_breakout_strategy
    \/ run_liquidity_grab_strategy
    \/ run_support_liquidity_strategy
    \/ check_positions_refresh
    \/ check_positions

Spec == Init /\ [][Next]_vars

(* ------------------------ supervisor and scanner ----------------------- *)
BotIds == 1..MaxBots

\* what the query for the running bots can return: rows of distinct bots
QueryResults ==
    {q \in UNION {[1..n -> BotIds] : n \in 0..MaxBots} :
        \A i \in DOMAIN q, j \in DOMAIN q : i # j => q[i] # q[j]}

\* active_bot_ids = {b['id'] for b in bots}
BotIdsOf(rows) == {rows[i] : i \in DOMAIN rows}

\* a loop whose cycle lets an exception escape: the loop is over
LoopAfterUncaught(raised, pause, error_pause) ==
    IF raised THEN [pc |-> "dead", sleep |-> 0]
    ELSE [pc |-> "sleep", sleep |-> pause]

\* while True: try: <cycle>; sleep(pause) / except Exception: sleep(error_pause)
LoopAfter(raised, pause, error_pause) ==
    [pc |-> "sleep", sleep |-> IF raised THEN error_pause ELSE pause]

\* the body of the loop of BotEngine.tick for one row.
\* construct_ok, config_ok: BotInstance(bot_data) / update_config(bot_data) return;
\* tick_ok: the bot's tick returns; stamp_ok: the last_tick_at update returns.
ProcessBot(rb, bot_id, construct_ok, config_ok, tick_ok, stamp_ok) ==
    IF bot_id \notin rb /\ ~construct_ok
    THEN [running_bots |-> rb, raised |-> TRUE, ticked |-> FALSE, error_log |-> FALSE,
          stamped |-> FALSE]
    ELSE IF ~config_ok
    THEN [running_bots |-> rb \cup {bot_id}, raised |-> TRUE, ticked |-> FALSE,
          error_log |-> FALSE, stamped |-> FALSE]
    ELSE [running_bots |-> rb \cup {bot_id}, raised |-> FALSE, ticked |-> TRUE,
          error_log |-> ~tick_ok \/ ~stamp_ok, stamped |-> tick_ok /\ stamp_ok]

SupervisorFrame ==
    /\ UNCHANGED <<scan_pc, scan_sleep>>
    /\ UNCHANGED cyclevars
    /\ UNCHANGED levelvars
    /\ UNCHANGED botvars
    /\ UNCHANGED peer
    /\ UNCHANGED unitvars

\* BotEngine.tick: the query for the running bots
supervisor_query ==
    /\ sup_pc = "tick"
    /\ \E query_ok \in BOOLEAN, result \in QueryResults :
         /\ ~query_ok => result = <<>>
         /\ queried' = IF query_ok THEN "ok" ELSE "failed"
         /\ bots' = result
         /\ IF Len(result) = 0
            THEN \* the query raised, or no bot is running: return
                 LET l == LoopAfter(FALSE, SupervisorPause, SupervisorErrorPause)
                 IN  sup_pc' = l.pc /\ sup_sleep' = l.sleep /\ sup_idx' = 0
            ELSE sup_pc' = "bot" /\ sup_sleep' = 0 /\ sup_idx' = 1
    /\ ticked' = {}
    /\ stamped' = {}
    /\ ended_early' = {}
    /\ error_logged' = {}
    /\ failed_bots' = {}
    /\ UNCHANGED running_bots
    /\ SupervisorFrame

\* BotEngine.tick: one iteration of the loop over the rows
supervisor_bot ==
    /\ sup_pc = "bot"
    /\ LET bot_id == bots[sup_idx]
       IN  \E construct_ok \in BOOLEAN, config_ok \in BOOLEAN,
              tick_ok \in BOOLEAN, stamp_ok \in BOOLEAN, have_prices \in BOOLEAN :
             LET r == ProcessBot(running_bots, bot_id, construct_ok, config_ok,
                                 tick_ok, stamp_ok)
             IN  \* outcomes of calls that are not made are not inputs
                 /\ bot_id \in running_bots => construct_ok
                 /\ ~construct_ok => config_ok
                 /\ r.raised => tick_ok
                 /\ ~tick_ok => stamp_ok
                 \* a tick without prices logs an error and returns; one that
                 \* is not run, or raises, is counted as having had prices
                 /\ (r.raised \/ ~tick_ok) => have_prices
                 /\ stamped' = IF r.stamped THEN stamped \cup {bot_id} ELSE stamped
                 /\ ended_early' = IF have_prices THEN ended_early
                                   ELSE ended_early \cup {bot_id}
                 /\ running_bots' = r.running_bots
                 /\ ticked' = IF r.ticked THEN ticked \cup {bot_id} ELSE ticked
                 /\ error_logged' = IF r.error_log THEN error_logged \cup {bot_id}
                                    ELSE error_logged
                 /\ failed_bots' = IF r.raised \/ r.error_log
                                   THEN failed_bots \cup {bot_id} ELSE failed_bots
                 /\ IF r.raised
                    THEN \* the exception leaves BotEngine.tick
                         LET l == LoopAfter(TRUE, SupervisorPause, SupervisorErrorPause)
                         IN  sup_pc' = l.pc /\ sup_sleep' = l.sleep /\ sup_idx' = 0
                    ELSE IF sup_idx < Len(bots)
                    THEN sup_pc' = "bot" /\ sup_sleep' = 0 /\ sup_idx' = sup_idx + 1
                    ELSE sup_pc' = "remove" /\ sup_sleep' = 0 /\ sup_idx' = 0
    /\ UNCHANGED <<bots, queried>>
    /\ SupervisorFrame

\* BotEngine.tick: remove the stopped bots, return
supervisor_remove ==
    /\ sup_pc = "remove"
    /\ running_bots' = running_bots \cap BotIdsOf(bots)
    /\ LET l == LoopAfter(FALSE, SupervisorPause, SupervisorErrorPause)
       IN  sup_pc' = l.pc /\ sup_sleep' = l.sleep
    /\ UNCHANGED <<bots, sup_idx, queried, ticked, stamped,
                   ended_early, error_logged, failed_bots>>
    /\ SupervisorFrame

\* BotEngine.start: the sleep is over, the loop calls tick again
supervisor_sleep ==
    /\ sup_pc = "sleep"
    /\ sup_pc' = "tick"
    /\ sup_sleep' = 0
    /\ UNCHANGED <<running_bots, bots, sup_idx, queried, ticked, stamped,
                   ended_early, error_logged, failed_bots>>
    /\ SupervisorFrame

ScannerFrame ==
    /\ UNCHANGED <<running_bots, sup_pc, sup_sleep, bots, sup_idx, queried, ticked, stamped,
                   ended_early,
                   error_logged, failed_bots>>
    /\ UNCHANGED levelvars
    /\ UNCHANGED botvars
    /\ UNCHANGED peer
    /\ UNCHANGED unitvars

\* what get_top_tokens_by_volume can return: distinct symbols, none when the
\* provider call failed
TokenLists ==
    {q \in UNION {[1..n -> Symbols] : n \in 0..Cardinality(Symbols)} :
        \A i \in DOMAIN q, j \in DOMAIN q : i # j => q[i] # q[j]}

\* the loop body without the handler around it: a failure ends the cycle
ProcessTokenUnguarded(candles_ok, compute_ok, upsert_ok) ==
    [raised |-> ~compute_ok, upserted |-> compute_ok /\ upsert_ok,
     failed |-> ~candles_ok \/ ~compute_ok \/ ~upsert_ok]

\* the body of the token loop of update_scanner_levels.
\* candles_ok: every timeframe's candle fetch and level computation returned;
\* compute_ok: the selection of the closest and strongest levels returned;
\* upsert_ok: the scanner_levels upsert returned.
ProcessToken(candles_ok, compute_ok, upsert_ok) ==
    [raised |-> FALSE, upserted |-> compute_ok /\ upsert_ok,
     failed |-> ~candles_ok \/ ~compute_ok \/ ~upsert_ok]

\* update_scanner_levels up to its token loop; update_ok: nothing raised
\* outside the handlers of the cycle
StartCycle(loop_pc, done_pc, pause) ==
    \E update_ok \in BOOLEAN, result \in TokenLists :
        /\ ~update_ok => result = <<>>
        /\ tokens' = result
        /\ upserted' = {}
        /\ scan_failed' = {}
        /\ IF ~update_ok
           THEN LET l == LoopAfter(TRUE, ScannerPause, ScannerErrorPause)
                IN  /\ scan_pc' = IF done_pc = "sleep" THEN l.pc ELSE done_pc
                    /\ scan_sleep' = IF done_pc = "sleep" THEN l.sleep ELSE 0
                    /\ scan_idx' = 0
           ELSE IF Len(result) = 0
           THEN scan_pc' = done_pc /\ scan_sleep' = pause /\ scan_idx' = 0
           ELSE scan_pc' = loop_pc /\ scan_sleep' = 0 /\ scan_idx' = 1

\* main of the scanner: the initial update, its exception caught
scanner_initial ==
    /\ scan_pc = "initial"
    /\ StartCycle("initial_token", "update", 0)
    /\ ScannerFrame

\* main of the scanner: one scheduled update
scanner_update ==
    /\ scan_pc = "update"
    /\ StartCycle("token", "sleep", ScannerPause)
    /\ ScannerFrame

\* update_scanner_levels: one iteration of the loop over the tokens
scanner_token ==
    /\ scan_pc \in {"initial_token", "token"}
    /\ LET coin == tokens[scan_idx]
           initial == scan_pc = "initial_token"
       IN  \E candles_ok \in BOOLEAN, compute_ok \in BOOLEAN, upsert_ok \in BOOLEAN :
             LET r == ProcessToken(candles_ok, compute_ok, upsert_ok)
             IN  \* the upsert is not attempted after a failed selection
                 /\ ~compute_ok => upsert_ok
                 /\ upserted' = IF r.upserted THEN upserted \cup {coin} ELSE upserted
                 /\ scan_failed' = IF r.failed THEN scan_failed \cup {coin}
                                   ELSE scan_failed
                 /\ IF r.raised
                    THEN LET l == LoopAfter(TRUE, ScannerPause, ScannerErrorPause)
                         IN  /\ scan_pc' = IF initial THEN "update" ELSE l.pc
                             /\ scan_sleep' = IF initial THEN 0 ELSE l.sleep
                             /\ scan_idx' = 0
                    ELSE IF scan_idx < Len(tokens)
                    THEN scan_pc' = scan_pc /\ scan_sleep' = 0
                         /\ scan_idx' = scan_idx + 1
                    ELSE LET l == LoopAfter(FALSE, ScannerPause, ScannerErrorPause)
                         IN  /\ scan_pc' = IF initial THEN "update" ELSE l.pc
                             /\ scan_sleep' = IF initial THEN 0 ELSE l.sleep
                             /\ scan_idx' = 0
    /\ UNCHANGED tokens
    /\ ScannerFrame

\* main of the scanner: the sleep is over
scanner_sleep ==
    /\ scan_pc = "sleep"
    /\ scan_pc' = "update"
    /\ scan_sleep' = 0
    /\ UNCHANGED cyclevars
    /\ ScannerFrame

SupervisorNext ==
    \/ supervisor_query
    \/ supervisor_bot
    \/ supervisor_remove
    \/ supervisor_sleep

ScannerNext ==
    \/ scanner_initial
    \/ scanner_update
    \/ scanner_token
    \/ scanner_sleep

EngineNext ==
    \/ supervisor_query
    \/ supervisor_bot
    \/ supervisor_remove
    \/ supervisor_sleep
    \/ scanner_initial
    \/ scanner_update
    \/ scanner_token
    \/ scanner_sleep

\* the engine with a bot whose strategy has no evaluator
EngineInit ==
    /\ Init
    /\ strategy.type = "other"
    /\ strategy.max_positions = 1

\* the supervisor and the scanner are two processes; each keeps running
EngineSpec ==
    /\ EngineInit
    /\ [][EngineNext]_vars
    /\ WF_vars(SupervisorNext)
    /\ WF_vars(ScannerNext)

(* ------------------------- the levels algorithm ------------------------ *)
\* Prices are integers; a candle is [h, l]; a level that is None is NoLevel.
Max(a, b) == IF a >= b THEN a ELSE b
Min(a, b) == IF a <= b THEN a ELSE b

NoLevel == [type |-> "none"]

\* PriceZone(price); touched is a history field: the prices counted as its touches
PriceZone(price) ==
    [price |-> price, high_touches |-> 0, low_touches |-> 0, total_touches |-> 0,
     touched |-> {}]

\* the index of the first zone whose price is within the threshold, 0: none
FindZone(zones, price, current_price) ==
    LET near == {i \in DOMAIN zones :
                   Abs(zones[i].price - price) * 1000
                       <= ZoneThresholdPerMille * current_price}
    IN  IF near = {} THEN 0
        ELSE CHOOSE i \in near : \A j \in near : i <= j

\* find_or_create_zone and the increment of the touch counters of its result
TouchZone(zones, price, current_price, is_high) ==
    LET i == FindZone(zones, price, current_price)
        zs == IF i = 0 THEN Append(zones, PriceZone(price)) ELSE zones
        k == IF i = 0 THEN Len(zs) ELSE i
    IN  [zs EXCEPT ![k].high_touches = @ + B2N(is_high),
                   ![k].low_touches = @ + B2N(~is_high),
                   ![k].total_touches = @ + 1,
                   ![k].touched = @ \cup {price}]

\* one pass of the candle loop of calculate_levels
TouchCandle(zones, candle, current_price) ==
    IF candle.h <= 0 \/ candle.l <= 0
    THEN zones
    ELSE TouchZone(TouchZone(zones, candle.h, current_price, TRUE),
                   candle.l, current_price, FALSE)

RECURSIVE TouchZones(_, _, _, _)
\* the zones after the candle loop of calculate_levels has passed candle i
TouchZones(zones, candles, current_price, i) ==
    IF i = 0 THEN zones
    ELSE TouchCandle(TouchZones(zones, candles, current_price, i - 1),
                     candles[i], current_price)

RECURSIVE InsertByTouches(_, _)
\* z inserted into the sorted list zs behind every zone with at least its touches
InsertByTouches(zs, z) ==
    IF zs = <<>> THEN <<z>>
    ELSE IF Head(zs).total_touches >= z.total_touches
    THEN <<Head(zs)>> \o InsertByTouches(Tail(zs), z)
    ELSE <<z>> \o zs

RECURSIVE SortByTouches(_, _)
\* list.sort(key = total_touches, reverse = True): stable
SortByTouches(zs, i) ==
    IF i = 0 THEN <<>>
    ELSE InsertByTouches(SortByTouches(zs, i - 1), zs[i])

\* max(highs) and min(lows) of a non-empty list of candles
MaxHigh(candles) ==
    LET highs == {candles[i].h : i \in DOMAIN candles}
    IN  CHOOSE x \in highs : \A y \in highs : x >= y

MinLow(candles) ==
    LET lows == {candles[i].l : i \in DOMAIN candles}
    IN  CHOOSE x \in lows : \A y \in lows : x <= y

\* candles[-k:] of Python, for k >= 1
LastSlice(candles, k) ==
    IF k >= Len(candles) THEN candles
    ELSE SubSeq(candles, Len(candles) - k + 1, Len(candles))

\* get_fallback_levels
get_fallback_levels(candles, current_price) ==
    IF Len(candles) = 0
    THEN [support |-> NoLevel, resistance |-> NoLevel, allLevels |-> <<>>]
    ELSE
      LET recent_candles == LastSlice(candles, Max(RecentCandles, Len(candles)))
          recent_high == MaxHigh(recent_candles)
          recent_low == MinLow(recent_candles)
          support == IF recent_low < current_price
                     THEN [type |-> "support", price |-> recent_low, touches |-> 1]
                     ELSE NoLevel
          resistance == IF recent_high > current_price
                        THEN [type |-> "resistance", price |-> recent_high, touches |-> 1]
                        ELSE NoLevel
      IN  [support |-> support, resistance |-> resistance,
           allLevels |-> SelectSeq(<<support, resistance>>, LAMBDA l : l # NoLevel)]

\* the zones list a call starts from, if the list of the last call were kept
InitialZonesKept(left) == left

\* the zones list a call starts from: zones = [], whatever the last call left
InitialZones(left) == <<>>

\* the level of a zone
LevelOf(zone, current_price) ==
    [type |-> IF zone.price < current_price THEN "support" ELSE "resistance",
     price |-> zone.price, touches |-> zone.total_touches]

\* the level of ls farthest from the price
FarthestLevel(ls, current_price) ==
    IF ls = <<>> THEN NoLevel
    ELSE LET best == CHOOSE i \in DOMAIN ls :
                       \A j \in DOMAIN ls :
                          \/ Abs(ls[i].price - current_price) > Abs(ls[j].price - current_price)
                          \/ /\ Abs(ls[i].price - current_price) = Abs(ls[j].price - current_price)
                             /\ i <= j
         IN  ls[best]

\* the level of ls closest to the price: min(ls, key = distance), the first of equals
ClosestLevel(ls, current_price) ==
    IF ls = <<>> THEN NoLevel
    ELSE LET best == CHOOSE i \in DOMAIN ls :
                       \A j \in DOMAIN ls :
                          \/ Abs(ls[i].price - current_price) < Abs(ls[j].price - current_price)
                          \/ /\ Abs(ls[i].price - current_price) = Abs(ls[j].price - current_price)
                             /\ i <= j
         IN  ls[best]

\* calculate_levels after its candle loop has left `zones`: its zones list when
\* it returns, the zones it emits and the dict it returns
LevelsOfZones(left, zones, candles, current_price) ==
    LET significant == SelectSeq(zones, LAMBDA z : z.total_touches >= 2)
        significant_zones == SortByTouches(significant, Len(significant))
        all_levels == [i \in DOMAIN significant_zones |->
                         LevelOf(significant_zones[i], current_price)]
    IN  IF Len(candles) = 0 \/ Len(significant_zones) = 0
        THEN [zones |-> IF Len(candles) = 0 THEN left ELSE zones, emitted |-> <<>>,
              levels |-> get_fallback_levels(candles, current_price)]
        ELSE [zones |-> zones, emitted |-> significant_zones,
              levels |->
                [support |-> ClosestLevel(
                     SelectSeq(all_levels, LAMBDA l : l.price < current_price),
                     current_price),
                 resistance |-> ClosestLevel(
                     SelectSeq(all_levels, LAMBDA l : l.price > current_price),
                     current_price),
                 allLevels |-> all_levels]]

\* calculate_levels from the zones list `left`
calculate_levels(left, candles, current_price) ==
    LevelsOfZones(left,
                  TouchZones(InitialZones(left), candles, current_price, Len(candles)),
                  candles, current_price)

\* inputs: the reference price, prices within half a percent of it, a price
\* further below, no price
ReferencePrice == 10000
ZonePriceSet == {0, 9900, 9960, 10000, 10040}
ShortCandles == {c \in [h : ZonePriceSet, l : ZonePriceSet] : c.l <= c.h}
ShortSequences == UNION {[1..n -> ShortCandles] : n \in 0..MaxShort}

\* candles none of whose highs and lows are within the threshold of another:
\* the older the candle, the lower its low and the higher its high
StairStep == 60
Staircase(n) ==
    [k \in 1..n |-> [h |-> 2 * ReferencePrice - StairStep * k, l |-> StairStep * k]]
LongSequences == {Staircase(n) : n \in 1..MaxCandles}

LevelsFrame ==
    /\ UNCHANGED <<running_bots, sup_pc, sup_sleep, bots, sup_idx, queried, ticked, stamped,
                   ended_early,
                   error_logged, failed_bots, scan_pc, scan_sleep>>
    /\ UNCHANGED cyclevars
    /\ UNCHANGED botvars
    /\ UNCHANGED peer
    /\ UNCHANGED unitvars

\* calculate_levels is called on lv_candles: its zones list before the loop
levels_calculate ==
    /\ lv_idx = 0
    /\ lv_runs < 2
    /\ lv_price > 0
    /\ lv_work' = InitialZones(lv_zones)
    /\ lv_idx' = 1
    /\ UNCHANGED <<lv_candles, lv_price, lv_zones, lv_result, lv_first, lv_between,
                   lv_runs>>
    /\ LevelsFrame

\* one pass of its candle loop
levels_candle ==
    /\ lv_idx \in DOMAIN lv_candles
    /\ lv_work' = TouchCandle(lv_work, lv_candles[lv_idx], lv_price)
    /\ lv_idx' = lv_idx + 1
    /\ UNCHANGED <<lv_candles, lv_price, lv_zones, lv_result, lv_first, lv_between,
                   lv_runs>>
    /\ LevelsFrame

\* the rest of calculate_levels, after the loop
levels_return ==
    /\ lv_idx = Len(lv_candles) + 1
    /\ LET r == LevelsOfZones(lv_zones, lv_work, lv_candles, lv_price)
       IN  /\ lv_result' = r
           /\ lv_zones' = r.zones
           /\ lv_first' = IF lv_runs = 0 THEN r ELSE lv_first
           /\ lv_runs' = lv_runs + 1
    /\ lv_idx' = 0
    /\ lv_work' = <<>>
    /\ UNCHANGED <<lv_candles, lv_price, lv_between>>
    /\ LevelsFrame

\* a call of calculate_levels on other candles, between the calls on lv_candles
levels_other ==
    /\ lv_idx = 0
    /\ lv_runs = 1
    /\ lv_between = 0
    /\ \E candle \in ShortCandles :
         /\ candle.l > 0
         /\ lv_zones' = calculate_levels(lv_zones, <<candle>>, lv_price).zones
    /\ lv_between' = lv_between + 1
    /\ UNCHANGED <<lv_candles, lv_price, lv_result, lv_first, lv_runs, lv_idx, lv_work>>
    /\ LevelsFrame

LevelsNext ==
    \/ levels_calculate
    \/ levels_candle
    \/ levels_return
    \/ levels_other

\* the arguments of the calls, before the first call
LevelsInit ==
    /\ BotEngineInit
    /\ ClosestIdle
    /\ market = NoMarket
    /\ strategy.type = "other"
    /\ strategy.max_positions = 1
    /\ lv_candles \in ShortSequences \cup LongSequences
    /\ lv_price = ReferencePrice
    /\ lv_zones = <<>>
    /\ lv_result = <<>>
    /\ lv_first = <<>>
    /\ lv_between = 0
    /\ lv_idx = 0
    /\ lv_work = <<>>
    /\ lv_runs = 0

LevelsSpec == LevelsInit /\ [][LevelsNext]_vars

(* ---------------------- liquidity_grab over long pauses ---------------- *)
\* a pause between two ticks longer than liquidity_grab_timeout
LongPause == liquidity_grab_timeout + 100

long_sleep ==
    /\ pc = "sleep"
    /\ ticks < MaxTicks
    /\ now' = now + LongPause
    /\ pc' = "idle"
    /\ call' = NoCall
    /\ UNCHANGED <<strategy, ticks, faults, pair_idx, sweep, sweep_idx, bot_positions,
                   bot_trades, positions, position_metadata, last_prices,
                   cached_market_data, last_market_data_fetch, last_position_close_time,
                   max_positions_reached, orderbook_v2_last_trade_time,
                   orderbook_v2_position_open_time, liquidity_grab_events,
                   last_liquidity_grab_check, last_support_liquidity_check,
                   break_even_moved>>
    /\ UNCHANGED enginevars

GrabNext ==
    \/ tick
    \/ sleep
    \/ long_sleep
    \/ run_liquidity_grab_strategy
    \/ check_positions_refresh
    \/ check_positions

GrabInit ==
    /\ Init
    /\ strategy.type = "liquidity_grab"

GrabSpec == GrabInit /\ [][GrabNext]_vars

(* ------------------------- one live log tile --------------------------- *)
MaxTileCalls == 3                    \* calls of log_update in a behaviour

TileFrame ==
    /\ UNCHANGED <<running_bots, sup_pc, sup_sleep, bots, sup_idx, queried, ticked, stamped,
                   ended_early, error_logged, failed_bots, scan_pc, scan_sleep>>
    /\ UNCHANGED cyclevars
    /\ UNCHANGED levelvars
    /\ UNCHANGED botvars
    /\ UNCHANGED peer
    /\ UNCHANGED candlevars
    /\ UNCHANGED closestvars
    /\ UNCHANGED market

\* one call of log_update for the pair: the update is answered by the store as
\* the row is there or not, or raises; the insert writes a row and returns its
\* id, or fails and writes none
tile_log_update ==
    /\ tile_calls < MaxTileCalls
    /\ \E w \in TileWrites :
         LET has_tile == tile_log_id # NoTile
             r == log_update(w.has_tile, w.update, w.insert_ok)
         IN  /\ w.has_tile = has_tile
             /\ (has_tile /\ w.update = "ok") => tile_log_id \in tile_rows
             /\ (has_tile /\ w.update = "empty") => tile_log_id \notin tile_rows
             /\ tile_last' = r.tile
             /\ IF r.tile = "inserted"
                THEN /\ tile_issued' = tile_issued + 1
                     /\ tile_rows' = tile_rows \cup {tile_issued + 1}
                     /\ tile_log_id' = tile_issued + 1
                ELSE UNCHANGED <<tile_issued, tile_rows, tile_log_id>>
    /\ tile_calls' = tile_calls + 1
    /\ UNCHANGED tile_purged
    /\ TileFrame

\* open_position and close_position delete the tile they end: the row goes and
\* the id is forgotten, or the delete raises and both stay
tile_delete ==
    /\ tile_log_id # NoTile
    /\ \E delete_ok \in BOOLEAN :
         IF delete_ok
         THEN /\ tile_rows' = tile_rows \ {tile_log_id}
              /\ tile_log_id' = NoTile
         ELSE UNCHANGED <<tile_rows, tile_log_id>>
    /\ tile_last' = "deleted"
    /\ UNCHANGED <<tile_issued, tile_calls, tile_purged>>
    /\ TileFrame

\* someone other than the engine deletes a tile row
tile_purge ==
    /\ \E id \in tile_rows : tile_rows' = tile_rows \ {id}
    /\ tile_purged' = TRUE
    /\ tile_last' = "purged"
    /\ UNCHANGED <<tile_log_id, tile_issued, tile_calls>>
    /\ TileFrame

TileNext ==
    \/ tile_log_update
    \/ tile_delete
    \/ tile_purge

TileInit ==
    /\ Init
    /\ strategy.type = "multi_timeframe_breakout"

TileSpec == TileInit /\ [][TileNext]_vars

(* ---------------------- get_top_tokens_by_volume ----------------------- *)
MIN_VOLUME == 50                     \* in millions of USD, as all volumes here
MAX_DECLINE_THRESHOLD == -10         \* percent
TOP_TOKENS_COUNT == 10
MaxAssets == 13                      \* assets in the provider's universe

\* the universe and the asset contexts the provider returns, one record per
\* asset: volumes around MIN_VOLUME, all different but for a twin; prices that
\* fell by 0, 9 or 10 percent, or a missing previous price
ShiftSet == {0, 3, 6, 9}
OddSet == {"none", "twin", "unpriced"}
AssetVolume(k, shift) == MIN_VOLUME - 1 + ((5 * k + shift) % 13)
Asset(k, shift, decliner, odd) ==
    [name |-> k,
     dayNtlVlm |-> IF odd = "twin" /\ k = 2 THEN AssetVolume(1, shift)
                   ELSE AssetVolume(k, shift),
     prevDayPx |-> IF odd = "unpriced" /\ k = 2 THEN 0 ELSE 100,
     markPx |-> IF k = decliner THEN 90 ELSE IF k % 2 = 0 THEN 91 ELSE 100]
Markets ==
    {NoMarket} \cup
    {[ok |-> TRUE, assets |-> [k \in 1..n |-> Asset(k, shift, decliner, odd)]] :
       n \in 0..MaxAssets, shift \in ShiftSet, decliner \in 0..3, odd \in OddSet}

\* the filter of the loop over the asset contexts; change24h is kept as the
\* fraction (mark_px - prev_day_px) * 100 / prev_day_px
Qualifies(asset_ctx) ==
    /\ asset_ctx.dayNtlVlm >= MIN_VOLUME
    /\ asset_ctx.prevDayPx > 0
    /\ asset_ctx.markPx > 0
    /\ (asset_ctx.markPx - asset_ctx.prevDayPx) * 100
         > MAX_DECLINE_THRESHOLD * asset_ctx.prevDayPx

TokenOf(asset_ctx) ==
    [coin |-> asset_ctx.name, price |-> asset_ctx.markPx, volume |-> asset_ctx.dayNtlVlm,
     change24h |-> [n |-> (asset_ctx.markPx - asset_ctx.prevDayPx) * 100,
                    d |-> asset_ctx.prevDayPx]]

\* the list sorted by volume, the smallest first
SortByVolumeAscending(token_list) ==
    LET rank(i) == Cardinality({j \in DOMAIN token_list :
                                  \/ token_list[j].volume < token_list[i].volume
                                  \/ /\ token_list[j].volume = token_list[i].volume
                                     /\ j < i}) + 1
    IN  [r \in DOMAIN token_list |->
           token_list[CHOOSE i \in DOMAIN token_list : rank(i) = r]]

\* token_list.sort(key = volume, reverse = True): a stable sort, so a token
\* stands behind those of larger volume and those of equal volume that came
\* before it
SortByVolume(token_list) ==
    LET rank(i) == Cardinality({j \in DOMAIN token_list :
                                  \/ token_list[j].volume > token_list[i].volume
                                  \/ /\ token_list[j].volume = token_list[i].volume
                                     /\ j < i}) + 1
    IN  [r \in DOMAIN token_list |->
           token_list[CHOOSE i \in DOMAIN token_list : rank(i) = r]]

\* get_top_tokens_by_volume on the provider's response
get_top_tokens_by_volume(response) ==
    IF ~response.ok THEN <<>>
    ELSE IF Len(response.assets) = 0 THEN <<>>
    ELSE LET qualifying == SelectSeq(response.assets, Qualifies)
             token_list == [i \in DOMAIN qualifying |-> TokenOf(qualifying[i])]
             sorted == SortByVolume(token_list)
         IN  SubSeq(sorted, 1, Min(TOP_TOKENS_COUNT, Len(sorted)))

TopFrame ==
    /\ UNCHANGED <<running_bots, sup_pc, sup_sleep, bots, sup_idx, queried, ticked, stamped,
                   ended_early, error_logged, failed_bots, scan_sleep, scan_failed>>
    /\ UNCHANGED levelvars
    /\ UNCHANGED botvars
    /\ UNCHANGED peer
    /\ UNCHANGED candlevars
    /\ UNCHANGED closestvars
    /\ UNCHANGED market
    /\ UNCHANGED tilevars

\* update_scanner_levels up to its token loop
top_update ==
    /\ scan_pc = "initial"
    /\ LET result == get_top_tokens_by_volume(market)
       IN  /\ tokens' = result
           /\ upserted' = {}
           /\ IF Len(result) = 0
              THEN scan_pc' = "top_done" /\ scan_idx' = 0
              ELSE scan_pc' = "top_token" /\ scan_idx' = 1
    /\ TopFrame

\* one pass of the token loop, the levels found and the upsert done
top_token ==
    /\ scan_pc = "top_token"
    /\ upserted' = upserted \cup {tokens[scan_idx].coin}
    /\ IF scan_idx < Len(tokens)
       THEN scan_pc' = "top_token" /\ scan_idx' = scan_idx + 1
       ELSE scan_pc' = "top_done" /\ scan_idx' = 0
    /\ UNCHANGED tokens
    /\ TopFrame

TopNext ==
    \/ top_update
    \/ top_token

\* the provider's response of one scanner cycle
TopInit ==
    /\ BotEngineInit
    /\ strategy.type = "other"
    /\ strategy.max_positions = 1
    /\ strategy.cooldown_period = DefaultCooldownPeriod
    /\ LevelsIdle
    /\ ClosestIdle
    /\ market \in Markets

TopSpec == TopInit /\ [][TopNext]_vars

(* ------------------------- find_closest_level -------------------------- *)
Timeframes == <<"15m", "30m", "1h">>

\* TIMEFRAME_WEIGHTS, for the timeframes the scanner uses
TIMEFRAME_WEIGHTS(tf) ==
    CASE tf = "15m" -> 2
      [] tf = "30m" -> 3
      [] tf = "1h" -> 4

\* levels['support'] and levels['resistance'] of one timeframe as
\* calculate_levels returns them: None, or a level with the timeframe's weight
SupportPriceSet == {9900, 9960}
ResistancePriceSet == {10040, 10100}
TimeframeLevels(tf) ==
    [support : {NoLevel} \cup {[price |-> x, weight |-> TIMEFRAME_WEIGHTS(tf)] :
                                  x \in SupportPriceSet},
     resistance : {NoLevel} \cup {[price |-> x, weight |-> TIMEFRAME_WEIGHTS(tf)] :
                                     x \in ResistancePriceSet}]
ClosestInputs ==
    {f \in [DOMAIN Timeframes -> UNION {TimeframeLevels(Timeframes[i]) :
                                          i \in DOMAIN Timeframes}] :
        \A i \in DOMAIN Timeframes : f[i] \in TimeframeLevels(Timeframes[i])}

\* a candidate of find_closest_level; the distance is kept in price units, the
\* percentage being the same multiple of it for every candidate of a call
Candidate(level, tf, type, current_price) ==
    [price |-> level.price, timeframe |-> tf, type |-> type,
     distance |-> Abs(current_price - level.price), weight |-> level.weight]

RECURSIVE Candidates(_, _, _)
\* the candidates list after the loop has passed timeframe i
Candidates(all_levels_by_timeframe, current_price, i) ==
    IF i = 0 THEN <<>>
    ELSE LET levels == all_levels_by_timeframe[i]
             tf == Timeframes[i]
         IN  Candidates(all_levels_by_timeframe, current_price, i - 1)
               \o (IF levels.support # NoLevel
                   THEN <<Candidate(levels.support, tf, "LOW", current_price)>>
                   ELSE <<>>)
               \o (IF levels.resistance # NoLevel
                   THEN <<Candidate(levels.resistance, tf, "HIGH", current_price)>>
                   ELSE <<>>)

\* the sort key with the weight ascending
KeyBeforeLightFirst(a, b) ==
    \/ a.distance < b.distance
    \/ a.distance = b.distance /\ a.weight < b.weight

\* (a.distance, -a.weight) < (b.distance, -b.weight)
KeyBefore(a, b) ==
    \/ a.distance < b.distance
    \/ a.distance = b.distance /\ -a.weight < -b.weight

RECURSIVE InsertByKey(_, _)
\* c inserted into the sorted list cs behind every candidate whose key is not
\* above its own
InsertByKey(cs, c) ==
    IF cs = <<>> THEN <<c>>
    ELSE IF KeyBefore(c, Head(cs)) THEN <<c>> \o cs
    ELSE <<Head(cs)>> \o InsertByKey(Tail(cs), c)

RECURSIVE SortByKey(_, _)
\* candidates.sort(key = (distance, -weight)): stable
SortByKey(cs, i) ==
    IF i = 0 THEN <<>>
    ELSE InsertByKey(SortByKey(cs, i - 1), cs[i])

\* find_closest_level
find_closest_level(all_levels_by_timeframe, current_price) ==
    LET candidates == Candidates(all_levels_by_timeframe, current_price,
                                 Len(Timeframes))
    IN  IF Len(candidates) = 0 THEN NoLevel
        ELSE SortByKey(candidates, Len(candidates))[1]

ClosestFrame ==
    /\ UNCHANGED <<running_bots, sup_pc, sup_sleep, bots, sup_idx, queried, ticked, stamped,
                   ended_early, error_logged, failed_bots, scan_pc, scan_sleep>>
    /\ UNCHANGED cyclevars
    /\ UNCHANGED levelvars
    /\ UNCHANGED botvars
    /\ UNCHANGED peer
    /\ UNCHANGED candlevars
    /\ UNCHANGED market
    /\ UNCHANGED tilevars

\* update_scanner_levels calls find_closest_level for a token
closest_call ==
    /\ closest_level = Pending
    /\ closest_level' = find_closest_level(closest_input, ReferencePrice)
    /\ UNCHANGED closest_input
    /\ ClosestFrame

ClosestNext == closest_call

\* the levels of the three timeframes of a token
ClosestInit ==
    /\ BotEngineInit
    /\ strategy.type = "other"
    /\ strategy.max_positions = 1
    /\ strategy.cooldown_period = DefaultCooldownPeriod
    /\ LevelsIdle
    /\ closest_input \in ClosestInputs
    /\ closest_level = Pending
    /\ market = NoMarket

ClosestSpec == ClosestInit /\ [][ClosestNext]_vars

(* --------------------- ticks in quick succession ----------------------- *)
ShortPauseSet == {1, market_data_cache_ttl}

\* a pause between two ticks no longer than market_data_cache_ttl
short_sleep ==
    /\ pc = "sleep"
    /\ ticks < MaxTicks
    /\ \E dt \in ShortPauseSet : now' = now + dt
    /\ pc' = "idle"
    /\ call' = NoCall
    /\ UNCHANGED <<strategy, ticks, faults, pair_idx, sweep, sweep_idx, bot_positions,
                   bot_trades, positions, position_metadata, last_prices,
                   cached_market_data, last_market_data_fetch, last_position_close_time,
                   max_positions_reached, orderbook_v2_last_trade_time,
                   orderbook_v2_position_open_time, liquidity_grab_events,
                   last_liquidity_grab_check, last_support_liquidity_check,
                   break_even_moved>>
    /\ UNCHANGED enginevars

MidsNext ==
    \/ tick
    \/ sleep
    \/ short_sleep
    \/ run_orderbook_imbalance_strategy
    \/ check_positions_refresh
    \/ check_positions

MidsInit ==
    /\ Init
    /\ strategy.type = "orderbook_imbalance"
    /\ strategy.max_positions = 1

MidsSpec == MidsInit /\ [][MidsNext]_vars

(* ----------------------- get_candles_cached alone ---------------------- *)
CandleWaitSet == {candle_cache_ttl \div 2, candle_cache_ttl}

CandleFrame ==
    /\ UNCHANGED <<strategy, ticks, faults, pc, pair_idx, sweep, sweep_idx, bot_positions,
                   bot_trades, positions, position_metadata, last_prices,
                   cached_market_data, last_market_data_fetch, last_position_close_time,
                   max_positions_reached, orderbook_v2_last_trade_time,
                   orderbook_v2_position_open_time, liquidity_grab_events,
                   last_liquidity_grab_check, last_support_liquidity_check,
                   break_even_moved>>
    /\ UNCHANGED <<running_bots, sup_pc, sup_sleep, bots, sup_idx, queried, ticked, stamped,
                   ended_early, error_logged, failed_bots, scan_pc, scan_sleep>>
    /\ UNCHANGED cyclevars
    /\ UNCHANGED levelvars
    /\ UNCHANGED peer
    /\ UNCHANGED closestvars
    /\ UNCHANGED market
    /\ UNCHANGED tilevars

\* one call of get_candles_cached by a strategy
candle_call ==
    /\ candle_calls < MaxCandleCalls
    /\ \E pair \in Symbols, interval \in Intervals, start_time \in StartSet,
          fetch_ok \in BOOLEAN, candles \in FetchedSet :
         LET r == get_candles_cached(candle_cache, last_candle_fetch, pair, interval,
                                     start_time, now, fetch_ok, candles)
         IN  \* outcomes of a fetch that is not made, or that raises, are not inputs
             /\ r.provider_calls = 0 => fetch_ok
             /\ (r.provider_calls = 0 \/ ~fetch_ok) => candles = "[]"
             /\ candle_cache' = r.cache
             /\ last_candle_fetch' = r.fetch
             /\ call' = [kind |-> "candles", pair |-> pair, interval |-> interval,
                         start_time |-> start_time, fetch_ok |-> fetch_ok,
                         candles |-> candles, ret |-> r.ret,
                         provider_calls |-> r.provider_calls]
    /\ candle_calls' = candle_calls + 1
    /\ UNCHANGED now
    /\ CandleFrame

\* time passes between two calls
candle_wait ==
    /\ now - Epoch < 2 * candle_cache_ttl
    /\ \E dt \in CandleWaitSet : now' = now + dt
    /\ UNCHANGED <<call, candle_cache, last_candle_fetch, candle_calls>>
    /\ CandleFrame

CandleNext ==
    \/ candle_call
    \/ candle_wait

CandleInit ==
    /\ Init
    /\ strategy.type = "multi_timeframe_breakout"

CandleSpec == CandleInit /\ [][CandleNext]_vars

(* ------------------- multi_timeframe_breakout alone -------------------- *)
MtfNext ==
    \/ tick
    \/ sleep
    \/ run_multi_timeframe_breakout_strategy
    \/ check_positions_refresh
    \/ check_positions

MtfInit ==
    /\ Init
    /\ strategy.type = "multi_timeframe_breakout"

MtfSpec == MtfInit /\ [][MtfNext]_vars

(* ------------------ orderbook_imbalance_v2 inside the cooldown --------- *)
\* a pause between two ticks longer than min_hold_time, shorter than cooldown_period
MidPause == (DefaultMinHoldTime + DefaultCooldownPeriod) \div 2

mid_sleep ==
    /\ pc = "sleep"
    /\ ticks < MaxTicks
    /\ now' = now + MidPause
    /\ pc' = "idle"
    /\ call' = NoCall
    /\ UNCHANGED <<strategy, ticks, faults, pair_idx, sweep, sweep_idx, bot_positions,
                   bot_trades, positions, position_metadata, last_prices,
                   cached_market_data, last_market_data_fetch, last_position_close_time,
                   max_positions_reached, orderbook_v2_last_trade_time,
                   orderbook_v2_position_open_time, liquidity_grab_events,
                   last_liquidity_grab_check, last_support_liquidity_check,
                   break_even_moved>>
    /\ UNCHANGED enginevars

V2Next ==
    \/ tick
    \/ sleep
    \/ mid_sleep
    \/ run_orderbook_imbalance_v2_strategy
    \/ check_positions_refresh
    \/ check_positions

V2Init ==
    /\ Init
    /\ strategy.type = "orderbook_imbalance_v2"

V2Spec == V2Init /\ [][V2Next]_vars

(* ------------------- check_positions at two price scales -------------- *)
\* entry prices of one cent and of one dollar, and current prices around the
\* entry price, in thousandths of it
EntryPriceSet == {100, 10000}
PerMilleSet == {980, 990, 1000, 1002, 1010, 1020}

\* open_position is called for BTC at one of the entry prices; both inserts succeed
sweep_open ==
    /\ pc = "idle"
    /\ bot_positions = <<>>
    /\ \E side \in {"long", "short"}, price \in EntryPriceSet :
         LET r == open_position(Core, "BTC", side, price, "ok", "ok")
         IN  /\ SetCore(r.S)
             /\ last_prices' = [last_prices EXCEPT !["BTC"] = price]
             /\ call' = [kind |-> "open", pos_insert |-> "ok", trade_insert |-> "ok",
                         ret |-> r.ret, error_log |-> r.error_log, fetched |-> TRUE,
                         log_ok |-> TRUE, log_raised |-> FALSE]
    /\ pc' = "sleep"
    /\ UNCHANGED <<strategy, now, ticks, faults, pair_idx, sweep, sweep_idx,
                   cached_market_data, last_market_data_fetch, max_positions_reached,
                   orderbook_v2_last_trade_time, last_liquidity_grab_check,
                   last_support_liquidity_check>>
    /\ UNCHANGED enginevars

\* a tick whose strategy opens nothing: the mid price of BTC, then check_positions
sweep_price ==
    /\ pc = "sleep"
    /\ ticks < MaxSweeps
    /\ Len(bot_positions) = 1
    /\ ticks' = ticks + 1
    /\ \E f \in PerMilleSet :
         last_prices' = [last_prices EXCEPT
                           !["BTC"] = (bot_positions[1].entry_price * f) \div 1000]
    /\ pc' = "refresh"
    /\ call' = NoCall
    /\ UNCHANGED <<strategy, now, faults, pair_idx, sweep, sweep_idx, bot_positions,
                   bot_trades, positions, position_metadata, cached_market_data,
                   last_market_data_fetch, last_position_close_time,
                   max_positions_reached, orderbook_v2_last_trade_time,
                   orderbook_v2_position_open_time, liquidity_grab_events,
                   last_liquidity_grab_check, last_support_liquidity_check,
                   break_even_moved>>
    /\ UNCHANGED enginevars

SweepNext ==
    \/ sweep_open
    \/ sweep_price
    \/ check_positions_refresh
    \/ check_positions

SweepInit ==
    /\ Init
    /\ strategy.type = "other"
    /\ strategy.max_positions = 1
    /\ strategy.cooldown_period = DefaultCooldownPeriod

SweepSpec == SweepInit /\ [][SweepNext]_vars

(* ----------------------------- properties ------------------------------ *)
IsOpen(row) == row.status = "open"
IsClosed(row) == row.status = "closed"
TradesOf(id) == SelectSeq(bot_trades, LAMBDA t : t.position_id = id)

\* C1: in every reachable state the number of open position rows of the bot in
\* the store is at most strategy.max_positions, for every strategy type.
C1_OpenPositionsWithinMax ==
    Len(OpenRows(bot_positions)) <= strategy.max_positions

\* C2: in every reachable state the bot has at most one open position row per
\* symbol, for every strategy type.
C2_OneOpenPositionPerSymbol ==
    \A i \in DOMAIN bot_positions, j \in DOMAIN bot_positions :
        (i # j /\ IsOpen(bot_positions[i]) /\ IsOpen(bot_positions[j]))
            => bot_positions[i].symbol # bot_positions[j].symbol

\* C3: a position opened on a symbol after a position on that symbol was closed
\* is opened at least 60 s after that close, for every strategy type.
C3_ReentryAfterCooldown ==
    \A i \in DOMAIN bot_positions, j \in DOMAIN bot_positions :
        (/\ i # j
         /\ bot_positions[i].symbol = bot_positions[j].symbol
         /\ IsClosed(bot_positions[i])
         /\ bot_positions[i].closed_at <= bot_positions[j].opened_at)
            => bot_positions[j].opened_at - bot_positions[i].closed_at >= position_cooldown

\* C4: every position row with status 'closed' has exactly two trade rows: the
\* opening trade (buy for long, sell for short) and the closing trade (the
\* opposite side), also when store writes fail.
C4_TwoTradesPerClosedPosition ==
    \A i \in DOMAIN bot_positions :
        IsClosed(bot_positions[i]) =>
            LET ts == TradesOf(i)
                opening == IF bot_positions[i].side = "long" THEN "buy" ELSE "sell"
                closing == IF bot_positions[i].side = "long" THEN "sell" ELSE "buy"
            IN  /\ Len(ts) = 2
                /\ ~ts[1].closing /\ ts[1].side = opening
                /\ ts[2].closing /\ ts[2].side = closing

\* C5: a position whose close was interrupted by a failed store write is not
\* dropped: until its closing trade is recorded it stays in the bot's list of
\* open positions, so that a later tick retries the close.
C5_FailedCloseStaysListed ==
    \A i \in DOMAIN bot_positions :
        (/\ IsClosed(bot_positions[i])
         /\ \A k \in DOMAIN bot_trades :
              ~(bot_trades[k].position_id = i /\ bot_trades[k].closing))
            => \E k \in DOMAIN positions : positions[k].id = i

\* C6: when the position-row insert of open_position fails (exception, error
\* result or empty result), no trade row is inserted, the in-memory positions
\* list and the position metadata are unchanged, an error log is attempted and
\* open_position returns False.
C6_FailedPositionInsertAborts ==
    [][(call'.kind = "open" /\ call'.pos_insert # "ok") =>
         /\ bot_trades' = bot_trades
         /\ bot_positions' = bot_positions
         /\ positions' = positions
         /\ position_metadata' = position_metadata
         /\ call'.error_log
         /\ ~call'.ret]_vars

\* a position-row insert has just failed, with an empty result
C6_Witness ==
    /\ call.kind = "open"
    /\ call.pos_insert = "empty"
    /\ ~call.ret

StopsOrdered(p) ==
    IF p.side = "long"
    THEN p.stop_loss <= p.entry_price /\ p.entry_price <= p.take_profit
    ELSE p.take_profit <= p.entry_price /\ p.entry_price <= p.stop_loss

\* C7: every open long position has stop_loss <= entry_price <= take_profit and
\* every open short position has take_profit <= entry_price <= stop_loss, in the
\* store and in memory, at creation and after a break-even adjustment.
C7_StopsOrdered ==
    /\ \A i \in DOMAIN bot_positions :
         IsOpen(bot_positions[i]) => StopsOrdered(bot_positions[i])
    /\ \A k \in DOMAIN positions : StopsOrdered(positions[k])

\* an open short position whose stop the break-even protection has moved,
\* next to an open long position as open_position created it
C7_Witness ==
    \E i \in DOMAIN bot_positions, j \in DOMAIN bot_positions :
        /\ IsOpen(bot_positions[i]) /\ bot_positions[i].side = "short"
        /\ i \in break_even_moved
        /\ IsOpen(bot_positions[j]) /\ bot_positions[j].side = "long"
        /\ bot_positions[j].stop_loss < bot_positions[j].entry_price

StopAtOrBeyondEntry(p) ==
    IF p.side = "long" THEN p.stop_loss >= p.entry_price
    ELSE p.stop_loss <= p.entry_price

\* C8: once break-even protection has moved a position's stop, the stored
\* stop_loss is >= entry_price (long) or <= entry_price (short) in every later
\* state in which the position is open.
C8_BreakEvenStopStays ==
    /\ \A i \in DOMAIN bot_positions :
         (i \in break_even_moved /\ IsOpen(bot_positions[i]))
             => StopAtOrBeyondEntry(bot_positions[i])
    /\ \A k \in DOMAIN positions :
         positions[k].id \in break_even_moved => StopAtOrBeyondEntry(positions[k])

\* a long position whose stop was moved in an earlier tick is swept again
C8_Witness ==
    /\ pc = "sweep"
    /\ sweep[sweep_idx].id \in break_even_moved
    /\ sweep[sweep_idx].side = "long"
    /\ bot_positions[sweep[sweep_idx].id].opened_at < now

\* C9: every position row written by open_position has size > 0 and
\* size * entry_price equal to the strategy's position_size.
C9_SizeIsNotionalOverPrice ==
    \A i \in DOMAIN bot_positions :
        /\ bot_positions[i].size.n > 0
        /\ bot_positions[i].size.n * bot_positions[i].entry_price
             = strategy.position_size * bot_positions[i].size.d

\* C10: under orderbook_imbalance_v2 no position is closed before
\* min_hold_time seconds have elapsed since it was opened.
C10_NoExitBeforeMinHold ==
    strategy.type = "orderbook_imbalance_v2" =>
        \A i \in DOMAIN bot_positions :
            IsClosed(bot_positions[i]) =>
                bot_positions[i].closed_at - bot_positions[i].opened_at
                    >= strategy.min_hold_time

\* C11: under orderbook_imbalance_v2, when the strategy has run over its pairs
\* no position whose hold time has reached 2 * min_hold_time is still open.
C11_ForceClosedAtTwiceMinHold ==
    (strategy.type = "orderbook_imbalance_v2" /\ pc = "refresh") =>
        \A i \in DOMAIN bot_positions :
            IsOpen(bot_positions[i]) =>
                now - bot_positions[i].opened_at < 2 * strategy.min_hold_time

\* C12: after every supervisor tick whose bot query succeeded, running_bots is
\* the set of bot ids the query returned, also when it returned no bot.
C12_TrackedBotsAreRunningBots ==
    (sup_pc = "sleep" /\ sup_sleep = SupervisorPause /\ queried = "ok")
        => running_bots = BotIdsOf(bots)

\* C13: at the end of a supervisor tick, every bot the query returned whose own
\* processing did not fail has been ticked, and every bot whose processing
\* failed has an error log.
C13_BotFailuresIsolated ==
    (sup_pc = "sleep" /\ queried = "ok") =>
        /\ \A b \in BotIdsOf(bots) : b \notin failed_bots => b \in ticked
        /\ failed_bots \subseteq error_logged

\* C14: neither loop terminates: the supervisor and the scanner start a cycle
\* again and again, and after a cycle that raised the supervisor pauses 5 s.
C14_LoopsNeverEnd ==
    /\ []<>(sup_pc = "tick") /\ []<>(sup_pc # "tick")
    /\ []<>(scan_pc = "update") /\ []<>(scan_pc # "update")
    /\ [](sup_pc \in {"tick", "bot", "remove", "sleep"})
    /\ []((sup_pc = "sleep" /\ failed_bots # error_logged)
             => sup_sleep = SupervisorErrorPause)

\* both loops have caught an exception and pause before the next cycle
C14_Witness ==
    /\ sup_pc = "sleep" /\ sup_sleep = SupervisorErrorPause
    /\ scan_pc = "sleep" /\ scan_sleep = ScannerErrorPause

\* C15: no strategy opens a position on a symbol for which a market-data fetch
\* (order book, candles or recent trades) failed or returned no data in this tick.
C15_NoEntryWithoutMarketData ==
    [][(call'.kind = "open" /\ call'.ret) => call'.fetched]_vars

\* C16: a store failure while the position-manager sweep handles one position
\* does not end the sweep: the sweep goes on to the next position of its list.
C16_SweepSurvivesStoreFailure ==
    [][(pc = "sweep" /\ sweep_idx < Len(sweep) /\ faults' > faults)
          => (pc' = "sweep" /\ sweep_idx' = sweep_idx + 1)]_vars

C18_ClosedOnce ==
    [][/\ (call'.kind = "close" /\ call'.update_ok
                                 /\ bot_positions[call'.id].entry_price # 0)
            => bot_positions[call'.id].status = "open"
       /\ \A i \in DOMAIN bot_positions :
            IsClosed(bot_positions[i]) => IsClosed(bot_positions'[i])]_vars

\* C19: every closing trade row of a position comes after an opening trade row
\* of the same position.
C19_OpeningTradeBeforeClosingTrade ==
    \A k \in DOMAIN bot_trades :
        bot_trades[k].closing =>
            \E j \in 1..(k - 1) :
                /\ bot_trades[j].position_id = bot_trades[k].position_id
                /\ ~bot_trades[j].closing

\* C20: a support_liquidity evaluation of a symbol opens a long position at the
\* current price exactly when the support price exists, the price is within
\* 0.15 % of it and at least 0.9985 times it, and the net flow is positive.
C20_SupportEntryOpensLong ==
    [][call'.kind = "evaluate" =>
         (call'.signal <=>
             /\ Len(bot_positions') = Len(bot_positions) + 1
             /\ bot_positions'[Len(bot_positions')].symbol = call'.symbol
             /\ bot_positions'[Len(bot_positions')].side = "long"
             /\ bot_positions'[Len(bot_positions')].entry_price = call'.price)]_vars

\* C23: in one scanner cycle a failure while processing one symbol ends neither
\* the token loop nor the cycle: the loop goes on to the next token, and when it
\* has ended every retained symbol whose own processing did not fail has been
\* upserted.
C23_SymbolFailuresIsolated ==
    /\ [][(scan_pc \in {"initial_token", "token"} /\ scan_idx < Len(tokens)
                                                 /\ scan_failed' # scan_failed)
            => (scan_pc' = scan_pc /\ scan_idx' = scan_idx + 1)]_vars
    /\ []((scan_pc = "sleep" /\ scan_sleep = ScannerPause)
            => \A i \in DOMAIN tokens :
                 tokens[i] \notin scan_failed => tokens[i] \in upserted)

\* the cycle is over: the first retained symbol failed, the second was upserted
C23_Witness ==
    /\ scan_pc = "sleep"
    /\ Len(tokens) = 2
    /\ tokens[1] \in scan_failed
    /\ tokens[1] \notin upserted
    /\ tokens[2] \in upserted

\* C25: ticking this bot leaves the other bot's state unchanged: the other
\* bot's lists and its rows in bot_positions and bot_trades stay as they were,
\* this bot's lists hold no row of the other bot (so no update by id reaches
\* one), and every row this bot writes carries its own bot_id.
C25_OtherBotsUntouched ==
    /\ peer = PeerInit
    /\ \A i \in DOMAIN positions :
         /\ positions[i].id \in DOMAIN bot_positions
         /\ bot_positions[positions[i].id].bot_id = SelfBotId
    /\ \A i \in DOMAIN sweep :
         /\ sweep[i].id \in DOMAIN bot_positions
         /\ bot_positions[sweep[i].id].bot_id = SelfBotId
    /\ \A i \in DOMAIN position_metadata : i \in DOMAIN bot_positions
    /\ \A i \in DOMAIN bot_positions : bot_positions[i].bot_id = SelfBotId
    /\ \A i \in DOMAIN bot_trades : bot_trades[i].bot_id = SelfBotId

\* this bot opened and closed a position on the pair of the other bot's open
\* position, and was ticked again
C25_Witness ==
    /\ ticks = 2
    /\ pc = "sleep"
    /\ \E i \in DOMAIN bot_positions :
         /\ bot_positions[i].symbol = PeerRow.symbol
         /\ bot_positions[i].status = "closed"
    /\ peer.bot_positions[1].status = "open"

\* the stop of the position is on the loss side of its entry price
StopOnLossSide(p) ==
    IF p.side = "long" THEN p.stop_loss < p.entry_price
    ELSE p.stop_loss > p.entry_price

\* C26: in the sweep, whenever the position is in profit by 0.15 % or more and
\* its stop is on the loss side of entry, the stop becomes exactly entry_price
\* in the store and in self.positions, at every price scale; and a stop that
\* was moved is not written again.
C26_BreakEvenMovesStopToEntry ==
    [][(pc = "sweep" /\ sweep_idx \in DOMAIN sweep) =>
          LET p == sweep[sweep_idx]
              c == last_prices[p.symbol]
          IN  /\ (/\ c # NoPrice
                  /\ PnlPctAtLeastBreakEven(p.side, p.entry_price, c)
                  /\ StopOnLossSide(p))
                 => /\ bot_positions'[p.id].stop_loss = p.entry_price
                    /\ \A i \in DOMAIN positions' :
                         positions'[i].id = p.id
                            => positions'[i].stop_loss = p.entry_price
              /\ p.id \in break_even_moved
                 => bot_positions'[p.id].stop_loss = bot_positions[p.id].stop_loss]_vars

\* C27: in the sweep a close is attempted for an open long position iff
\* current <= stop_loss or current >= take_profit, for an open short iff
\* current >= stop_loss or current <= take_profit; the stop tested is the one
\* after the break-even adjustment of the same sweep, and the reason is
\* 'Stop Loss' when the stop test holds, 'Take Profit' otherwise.
C27_CloseIffStopOrTarget ==
    [][(pc = "sweep" /\ sweep_idx \in DOMAIN sweep) =>
          LET p == sweep[sweep_idx]
              c == last_prices[p.symbol]
              stop == IF p.id \in break_even_moved' \ break_even_moved
                      THEN p.entry_price ELSE p.stop_loss
              at_stop == IF p.side = "long" THEN c <= stop ELSE c >= stop
              at_target == IF p.side = "long" THEN c >= p.take_profit
                           ELSE c <= p.take_profit
              closing == call'.kind = "close" /\ call'.id = p.id
          IN  (c # NoPrice /\ bot_positions[p.id].status = "open")
                 => /\ closing <=> (at_stop \/ at_target)
                    /\ closing => call'.reason = IF at_stop THEN "Stop Loss"
                                                ELSE "Take Profit"]_vars

\* C28: liquidity_grab emits an entry for a symbol only when a wick event of
\* the symbol was recorded on an earlier evaluation, current >= support * 0.998
\* and (V_now / V_avg >= 0.8 or recovery >= 0.1 %); after a successful entry the
\* symbol has no wick event, after a failed open it still has one.
C28_EntryOnlyFromArmed ==
    [][(strategy.type = "liquidity_grab" /\ pc = "strategy" /\ call'.kind = "open") =>
          LET pair == call'.symbol
              event == liquidity_grab_events[pair]
              current == last_prices[pair]
          IN  /\ event # NoEvent
              /\ event.wick_time < now
              /\ current * 1000 >= event.support_level * 998
              /\ \/ call'.seen.volume_ok
                 \/ (current - event.wick_price) * 1000 >= event.wick_price
              /\ call'.ret => liquidity_grab_events'[pair] = NoEvent
              /\ ~call'.ret => liquidity_grab_events'[pair] # NoEvent]_vars

\* liquidity_grab has just opened a position on the bounce of a wick event
C28_Witness ==
    /\ strategy.type = "liquidity_grab"
    /\ call.kind = "open"
    /\ call.ret
    /\ HasOpenPosition(positions, call.symbol)
    /\ liquidity_grab_events[call.symbol] = NoEvent

C30_V1EntryOnlyOnImbalance ==
    [][(strategy.type = "orderbook_imbalance" /\ pc = "strategy" /\ call'.kind = "open") =>
          LET book == call'.seen
          IN  /\ call'.side = "long"
                   => /\ book.bid_depth > 3 * book.ask_depth
                      /\ call'.price = book.best_ask
              /\ call'.side = "short"
                   => /\ 100 * book.bid_depth < 33 * book.ask_depth
                      /\ call'.price = book.best_bid]_vars

\* C31: orderbook_imbalance_v2 opens only longs, only when the bid share of the
\* book is above imbalance_threshold and at least cooldown_period seconds have
\* passed since the symbol's last v2 trade time; a successful entry stamps the
\* open time and the last trade time; and the cooldown never stands in the way
\* of an exit that is due.
C31_V2EntryLongAfterCooldown ==
    [][(strategy.type = "orderbook_imbalance_v2" /\ pc = "strategy"
          /\ pair_idx \in DOMAIN strategy.pairs) =>
          LET pair == strategy.pairs[pair_idx]
              book == call'.seen
              position == positions[SelectSeqIdx(positions, pair, 1)]
              held == now - (IF orderbook_v2_position_open_time[pair] = NoTime THEN now
                             ELSE orderbook_v2_position_open_time[pair])
          IN  /\ call'.kind = "open"
                   => /\ call'.side = "long"
                      /\ 100 * book.bid_volume
                           > strategy.imbalance_threshold_pct
                               * (book.bid_volume + book.ask_volume)
                      /\ now - orderbook_v2_last_trade_time[pair] >= strategy.cooldown_period
                      /\ call'.ret => /\ orderbook_v2_position_open_time'[pair] = now
                                      /\ orderbook_v2_last_trade_time'[pair] = now
              /\ (call'.kind = "skip" /\ call'.reason = "cooldown")
                   => ~ /\ HasOpenPosition(positions, pair)
                        /\ V2ExitReason(position.side, held, book.bid_volume,
                                        book.ask_volume) # ""]_vars

\* a position that orderbook_imbalance_v2 opened has just been closed by its
\* exit while the cooldown of the entry was still running
C31_Witness ==
    /\ strategy.type = "orderbook_imbalance_v2"
    /\ call.kind = "close"
    /\ call.reason = "Imbalance reversed"
    /\ bot_positions[call.id].side = "long"
    /\ now - bot_positions[call.id].opened_at >= strategy.min_hold_time
    /\ now - bot_positions[call.id].opened_at < strategy.cooldown_period

\* C32: multi_timeframe_breakout opens no position on a symbol in a tick where
\* the last closed 1h candle closed below its open; when the candles of the
\* trend check are missing or hold no closed candle an entry is permitted; and
\* every position the strategy opens is long.
C32_NoEntryInDowntrend ==
    [][(strategy.type = "multi_timeframe_breakout" /\ pc = "strategy"
          /\ call'.kind = "open") =>
          LET trend == call'.seen
              n == IF trend.ok THEN Len(trend.candles) ELSE 0
          IN  /\ call'.side = "long"
              /\ n >= 2 => trend.candles[n - 1].c >= trend.candles[n - 1].o
              /\ call'.ret => /\ Len(bot_positions') = Len(bot_positions) + 1
                              /\ bot_positions'[Len(bot_positions')].side = "long"]_vars

\* the trend check had no candles and the strategy opened a long all the same
C32_Witness ==
    /\ strategy.type = "multi_timeframe_breakout"
    /\ call.kind = "open"
    /\ call.ret
    /\ call.seen = NoCandles
    /\ \E i \in DOMAIN positions : positions[i].symbol = call.symbol
                                      /\ positions[i].side = "long"

\* C33: the supervisor writes last_tick_at for a bot in a supervisor tick only
\* if that bot's tick in the same supervisor tick ran to completion without
\* raising: never after a tick that raised, and never after a tick that ended
\* early because no market data was available.
C33_StampOnlyAfterCompleteTick ==
    \A b \in stamped : /\ b \in ticked
                       /\ b \notin error_logged
                       /\ b \notin ended_early

C35_FailedFetchServesStale ==
    [][(call'.kind = "candles" /\ candle_calls' = candle_calls + 1
          /\ call'.provider_calls = 1 /\ ~call'.fetch_ok) =>
          LET key == <<call'.pair, call'.interval,
                       call'.start_time - (call'.start_time % 60000)>>
          IN  /\ call'.ret = IF candle_cache[key] # NoEntry THEN candle_cache[key]
                             ELSE NoData
              /\ candle_cache' = candle_cache
              /\ last_candle_fetch' = last_candle_fetch]_vars

\* a fetch failed and the call returned an entry older than the time to live
C35_Witness ==
    /\ call.kind = "candles"
    /\ call.provider_calls = 1
    /\ ~call.fetch_ok
    /\ call.ret \in FetchedSet \ {"[]"}
    /\ now - last_candle_fetch[CandleKey(call.pair, call.interval, call.start_time)]
         > candle_cache_ttl

\* C36: a bot tick reuses the mid-price snapshot without a provider call only
\* while the snapshot is less than 2 s old; when the fetch fails the previous
\* snapshot is used if there is one, and if there is none the tick ends after
\* an error log, before the strategy and the position sweep, so that it
\* opens, adjusts and closes no position.
C36_SnapshotReuseAndNoDataTick ==
    [][(pc = "idle" /\ ticks' = ticks + 1) =>
          LET age == now - last_market_data_fetch
              snapshot == cached_market_data
              prices_of(m) == [s \in Symbols |-> IF m[s] # NoPrice THEN m[s]
                                                 ELSE last_prices[s]]
              ended == /\ pc' = "sleep"
                       /\ UNCHANGED <<bot_positions, bot_trades, positions,
                                      position_metadata, last_prices>>
          IN  /\ call'.hit <=> age < 2
              /\ call'.hit => /\ last_prices' = prices_of(snapshot)
                              /\ UNCHANGED <<cached_market_data, last_market_data_fetch>>
              /\ (~call'.hit /\ ~call'.fetch_ok)
                   => /\ UNCHANGED <<cached_market_data, last_market_data_fetch>>
                      /\ IF snapshot # NoMids
                         THEN ~call'.error_log /\ last_prices' = prices_of(snapshot)
                         ELSE call'.error_log /\ ended]_vars

\* a tick came between one and two seconds after the snapshot was fetched
\* and reused it
C36_Witness ==
    /\ call.kind = "mids"
    /\ call.hit
    /\ cached_market_data # NoMids
    /\ now - last_market_data_fetch = 1
    /\ ticks = 2

C38_ClosestIsNearestThenHeaviest ==
    closest_level # Pending =>
        LET P == ReferencePrice
            candidates ==
                {[price |-> closest_input[i].support.price, timeframe |-> Timeframes[i],
                  type |-> "LOW", distance |-> Abs(P - closest_input[i].support.price),
                  weight |-> closest_input[i].support.weight] :
                   i \in {j \in DOMAIN closest_input : closest_input[j].support # NoLevel}}
                \cup
                {[price |-> closest_input[i].resistance.price, timeframe |-> Timeframes[i],
                  type |-> "HIGH", distance |-> Abs(closest_input[i].resistance.price - P),
                  weight |-> closest_input[i].resistance.weight] :
                   i \in {j \in DOMAIN closest_input : closest_input[j].resistance # NoLevel}}
        IN  /\ closest_level = NoLevel <=> candidates = {}
            /\ closest_level # NoLevel =>
                  /\ closest_level \in candidates
                  /\ \A c \in candidates :
                        \/ closest_level.distance < c.distance
                        \/ /\ closest_level.distance = c.distance
                           /\ closest_level.weight >= c.weight

\* the level returned has an equally near rival of a lighter timeframe that
\* stood before it in the list
C38_Witness ==
    /\ closest_level \notin {Pending, NoLevel}
    /\ closest_level.timeframe = "1h"
    /\ closest_input[1].support # NoLevel
    /\ Abs(ReferencePrice - closest_input[1].support.price) = closest_level.distance

\* C39: get_top_tokens_by_volume returns at most 10 symbols, each with a 24h
\* volume of at least 50,000,000 and a 24h change above -10 %, in descending
\* order of volume; no qualifying symbol it leaves out has a larger volume than
\* one it returns; and when the provider call fails it returns the empty list,
\* and no symbol is upserted in that cycle.
C39_TopTokensByVolume ==
    scan_pc \in {"top_token", "top_done"} =>
        LET assets == IF market.ok THEN market.assets ELSE <<>>
            good == {i \in DOMAIN assets :
                       /\ assets[i].dayNtlVlm >= 50
                       /\ assets[i].prevDayPx > 0
                       /\ (assets[i].markPx - assets[i].prevDayPx) * 100
                            > (-10) * assets[i].prevDayPx}
            returned == {tokens[i].coin : i \in DOMAIN tokens}
        IN  /\ Len(tokens) <= 10
            /\ Cardinality(returned) = Len(tokens)
            /\ \A t \in DOMAIN tokens :
                  \E i \in good : /\ assets[i].name = tokens[t].coin
                                   /\ assets[i].dayNtlVlm = tokens[t].volume
            /\ \A t \in DOMAIN tokens, u \in DOMAIN tokens :
                  t < u => tokens[t].volume >= tokens[u].volume
            /\ \A i \in good :
                  assets[i].name \notin returned
                    => \A t \in DOMAIN tokens : assets[i].dayNtlVlm <= tokens[t].volume
            /\ ~market.ok => tokens = <<>> /\ upserted = {}
            /\ upserted \subseteq returned

\* eleven assets qualified, the ten of largest volume were returned and upserted
C39_Witness ==
    /\ scan_pc = "top_done"
    /\ market.ok
    /\ Len(tokens) = 10
    /\ Cardinality(upserted) = 10
    /\ \E i \in DOMAIN market.assets :
          /\ Qualifies(market.assets[i])
          /\ market.assets[i].name \notin upserted
    /\ \E i \in DOMAIN market.assets : market.assets[i].markPx = 90

\* C40: for one bot, symbol and tile kind, while the engine is the only writer
\* of bot_logs, after any sequence of log_update calls at most one tile row
\* written by those calls exists in the store, and the remembered tile id
\* refers to it.
C40_OneTileRowPerKey ==
    ~tile_purged => /\ Cardinality(tile_rows) <= 1
                    /\ tile_rows # {} => tile_rows = {tile_log_id}

\* C21: any two candle prices counted as touches of one emitted zone differ by
\* at most 0.5 % of the reference price.
C21_ZoneTouchesWithinThreshold ==
    lv_runs >= 1 =>
        \A i \in DOMAIN lv_result.emitted :
            \A p1 \in lv_result.emitted[i].touched, p2 \in lv_result.emitted[i].touched :
                Abs(p1 - p2) * 1000 <= ZoneThresholdPerMille * lv_price

\* C22: when no zone reaches 2 touches, the fallback support and resistance are
\* the minimum low and the maximum high of the most recent min(20, n) candles.
C22_FallbackUsesRecentCandles ==
    (lv_runs >= 1 /\ Len(lv_candles) > 0 /\ lv_result.emitted = <<>>) =>
        LET n == Len(lv_candles)
            recent == SubSeq(lv_candles, n - Min(RecentCandles, n) + 1, n)
            low == MinLow(recent)
            high == MaxHigh(recent)
        IN  /\ lv_result.levels.support =
                  IF low < lv_price
                  THEN [type |-> "support", price |-> low, touches |-> 1] ELSE NoLevel
            /\ lv_result.levels.resistance =
                  IF high > lv_price
                  THEN [type |-> "resistance", price |-> high, touches |-> 1]
                  ELSE NoLevel

====
